---- MODULE Spec2Model ----
(***************************************************************************)
(* Model of the text-analysis core of the smart-contract backend:          *)
(*   explain_generated_code   (src/agent/contract_utils.py)                *)
(*   analyze_gas_usage        (src/agent/contract_utils.py)                *)
(*   get_contract_metrics     (src/agent/contract_helpers.py)              *)
(*   handle_compilation_errors(src/agent/contract_helpers.py)              *)
(* Source text, ABI names and compiler messages are real strings; the      *)
(* Python string primitives the code uses (in, startswith, count, strip,   *)
(* split, lower, re.search) are computed character by character.           *)
(***************************************************************************)
EXTENDS Integers, Sequences, FiniteSets, TLC

VARIABLES
    op,                 \* the public operation this run calls
    pc,                 \* position inside the operation
    lines,              \* contract_code.split('\n')
    i,                  \* explain_generated_code: loop index (0-based)
    explanations,       \* explain_generated_code: the section list
    current_section,    \* explain_generated_code: open section kind or "None"
    result,             \* the returned envelope, NoResult until the return
    bytecode,           \* analyze_gas_usage: the hex bytecode
    abi,                \* analyze_gas_usage: the parsed ABI, a list of entries
    function_estimates, \* analyze_gas_usage: the estimates, in insertion order
    baseline,           \* the envelope of an earlier run on the source as it was
    added_to,           \* the function whose body got one more require(
    other,              \* a second call in progress, suspended: its locals
    preempted,          \* the running call was suspended between two of its steps
    user_description,   \* validate_user_input: the argument
    contract_type,      \* select_contract_template: the argument
    errors_json,        \* handle_compilation_errors: the argument, a text or a list
    errors,             \* handle_compilation_errors: the message list
    parsed_errors       \* handle_compilation_errors: the diagnostics so far

vars == <<op, pc, lines, i, explanations, current_section, result,
          bytecode, abi, function_estimates, baseline, added_to,
          other, preempted, user_description, contract_type,
          errors_json, errors, parsed_errors>>

\* the variables of analyze_gas_usage
gasVars == <<bytecode, abi, function_estimates, baseline, added_to>>

\* the second caller
schedVars == <<other, preempted>>

\* no second call
Idle == [op |-> "idle"]

NoOther == other = Idle /\ preempted = FALSE

\* the arguments of validate_user_input and select_contract_template
argVars == <<user_description, contract_type>>

\* a text handed as an argument
Text(s) == [type |-> "str", value |-> s]

\* the arguments as they are while another operation runs
NoArgs == user_description = Text("") /\ contract_type = Text("")

\* the variables of handle_compilation_errors
errVars == <<errors_json, errors, parsed_errors>>

NoResult == [status |-> "none"]

\* an empty list handed to handle_compilation_errors
NoErrors == [type |-> "list", value |-> <<>>]

\* Bound on the number of lines of a source text.
MaxLines == 3

(***************************************************************************)
(* Python string primitives                                                *)
(***************************************************************************)

Char(s, k) == SubSeq(s, k, k)

WhiteSpace == {" ", "\t"}

LowerLetters ==
    {"a","b","c","d","e","f","g","h","i","j","k","l","m",
     "n","o","p","q","r","s","t","u","v","w","x","y","z"}

UpperLetters ==
    {"A","B","C","D","E","F","G","H","I","J","K","L","M",
     "N","O","P","Q","R","S","T","U","V","W","X","Y","Z"}

Digits == {"0","1","2","3","4","5","6","7","8","9"}

\* the regular-expression class \w
WordChars == LowerLetters \cup UpperLetters \cup Digits \cup {"_"}

\* p occurs in s at position k (1-based)
OccursAt(s, p, k) == k + Len(p) - 1 <= Len(s) /\ SubSeq(s, k, k + Len(p) - 1) = p

\* s.startswith(p)
StartsWith(s, p) == OccursAt(s, p, 1)

\* s.find(p, k): the first position >= k (1-based) where p occurs, 0 if none
\* (the positions lo..hi are searched by halves, left half first)
RECURSIVE FindIn(_, _, _, _)
FindIn(s, p, lo, hi) ==
    IF lo > hi THEN 0
    ELSE IF lo = hi THEN (IF OccursAt(s, p, lo) THEN lo ELSE 0)
    ELSE LET mid == (lo + hi) \div 2
             left == FindIn(s, p, lo, mid)
         IN  IF left > 0 THEN left ELSE FindIn(s, p, mid + 1, hi)

FindFrom(s, p, k) == FindIn(s, p, k, Len(s) - Len(p) + 1)

\* p in s
Contains(s, p) == \E k \in 1..(Len(s) - Len(p) + 1) : OccursAt(s, p, k)

\* s.count(p): the number of non-overlapping occurrences, left to right
RECURSIVE CountFrom(_, _, _)
CountFrom(s, p, k) ==
    LET at == FindFrom(s, p, k)
    IN  IF at = 0 THEN 0 ELSE 1 + CountFrom(s, p, at + Len(p))

Count(s, p) == CountFrom(s, p, 1)

RECURSIVE LStrip(_)
LStrip(s) ==
    IF Len(s) > 0 /\ Char(s, 1) \in WhiteSpace
    THEN LStrip(SubSeq(s, 2, Len(s))) ELSE s

RECURSIVE RStrip(_)
RStrip(s) ==
    IF Len(s) > 0 /\ Char(s, Len(s)) \in WhiteSpace
    THEN RStrip(SubSeq(s, 1, Len(s) - 1)) ELSE s

\* s.strip()
Strip(s) == RStrip(LStrip(s))

\* the end (exclusive) of the run of characters of class cls that starts at k
RECURSIVE RunEnd(_, _, _)
RunEnd(s, k, cls) ==
    IF k <= Len(s) /\ Char(s, k) \in cls THEN RunEnd(s, k + 1, cls) ELSE k

\* the end (exclusive) of the run of characters outside cls that starts at k
RECURSIVE RunEndNot(_, _, _)
RunEndNot(s, k, cls) ==
    IF k <= Len(s) /\ Char(s, k) \notin cls THEN RunEndNot(s, k + 1, cls) ELSE k

\* s.split()[1] of a stripped s that holds at least two words
SecondWord(s) ==
    LET e1 == RunEndNot(s, 1, WhiteSpace)
        b2 == RunEnd(s, e1, WhiteSpace)
        e2 == RunEndNot(s, b2, WhiteSpace)
    IN  SubSeq(s, b2, e2 - 1)

\* w.split('(')[0]
BeforeParen(w) ==
    LET at == FindFrom(w, "(", 1)
    IN  IF at = 0 THEN w ELSE SubSeq(w, 1, at - 1)

\* '\n'.join(ls[a..b]) over 1-based positions a..b
RECURSIVE JoinLines(_, _, _)
JoinLines(ls, a, b) ==
    IF a > b THEN ""
    ELSE IF a = b THEN ls[a]
    ELSE ls[a] \o "\n" \o JoinLines(ls, a + 1, b)

RECURSIVE SeqSum(_)
SeqSum(q) == IF q = <<>> THEN 0 ELSE Head(q) + SeqSum(Tail(q))

Min(a, b) == IF a < b THEN a ELSE b

Max(a, b) == IF a > b THEN a ELSE b

\* p in contract_code, for a pattern p without line break
InCode(ls, p) == \E k \in 1..Len(ls) : Contains(ls[k], p)

\* contract_code.count(p), for a pattern p without line break
CountCode(ls, p) == SeqSum([k \in 1..Len(ls) |-> Count(ls[k], p)])

(***************************************************************************)
(* explain_generated_code                                                  *)
(***************************************************************************)

TypeKeywords == {"uint", "mapping", "address", "string", "bool"}

\* the branch of the if/elif chain that a stripped line takes
Branch(ls) ==
    IF StartsWith(ls, "pragma solidity") THEN "pragma"
    ELSE IF StartsWith(ls, "import ") THEN "import"
    ELSE IF StartsWith(ls, "contract ") THEN "contract"
    ELSE IF \E t \in TypeKeywords : StartsWith(ls, t) THEN "type"
    ELSE IF StartsWith(ls, "event ") THEN "event"
    ELSE IF StartsWith(ls, "modifier ") THEN "modifier"
    ELSE IF StartsWith(ls, "constructor") THEN "constructor"
    ELSE IF StartsWith(ls, "function ") THEN "function"
    ELSE "none"

\* "Find the end of the function": the loop over j in range(i, len(lines)),
\* 0-based; the end stays at i when the loop never breaks
RECURSIVE BraceScan(_, _, _, _)
BraceScan(ls, start, j, brace_count) ==
    IF j >= Len(ls) THEN start
    ELSE LET bc == brace_count + Count(ls[j + 1], "{") - Count(ls[j + 1], "}")
         IN  IF bc = 0 /\ \E k \in (start + 1)..(j + 1) : Contains(ls[k], "{")
             THEN j
             ELSE BraceScan(ls, start, j + 1, bc)

\* a brace scan that stops at the first line holding a closing brace, blind to
\* nesting
RECURSIVE FirstClosingLine(_, _, _)
FirstClosingLine(ls, start, j) ==
    IF j >= Len(ls) THEN start
    ELSE IF Contains(ls[j + 1], "}") THEN j
    ELSE FirstClosingLine(ls, start, j + 1)

BlockEndFirstClose(ls, start) == FirstClosingLine(ls, start, start)

BlockEnd(ls, start) == BraceScan(ls, start, start, 0)

\* explanations[-1]["line_end"] = v
SetLastLineEnd(expl, v) ==
    [expl EXCEPT ![Len(expl)] = ("line_end" :> v) @@ @]

\* explanations[-1]["code"] += "\n" + line_stripped
AppendLastCode(expl, ls) ==
    [expl EXCEPT ![Len(expl)] = ("code" :> (@.code \o "\n" \o ls)) @@ @]

\* if current_section: explanations[-1]["line_end"] = i
ClosePrevious(expl, cur, idx) ==
    IF cur # "None" THEN SetLastLineEnd(expl, idx) ELSE expl

Visibility(ls) ==
    IF Contains(ls, "public") THEN "public"
    ELSE IF Contains(ls, "external") THEN "external"
    ELSE IF Contains(ls, "private") THEN "private"
    ELSE "internal"

StateMutability(ls) ==
    IF Contains(ls, "view") THEN "view"
    ELSE IF Contains(ls, "pure") THEN "pure"
    ELSE IF Contains(ls, "payable") THEN "payable"
    ELSE "nonpayable"

Scanning == op = "explain_generated_code" /\ pc = "scan" /\ i < Len(lines)

Stripped == Strip(lines[i + 1])

\* a pragma branch that puts its section at the head of the list
ScanPragmaFirst ==
    /\ Scanning /\ Branch(Stripped) = "pragma"
    /\ explanations' =
           <<[section |-> "Pragma Declaration", line_start |-> i + 1,
              line_end |-> i + 1, code |-> Stripped, importance |-> "critical"]>>
           \o explanations
    /\ i' = i + 1
    /\ UNCHANGED <<op, schedVars, argVars, pc, lines, current_section, result, gasVars,
                   errVars>>

ScanPragma ==
    /\ Scanning /\ Branch(Stripped) = "pragma"
    /\ explanations' = Append(explanations,
           [section |-> "Pragma Declaration", line_start |-> i + 1,
            line_end |-> i + 1, code |-> Stripped, importance |-> "critical"])
    /\ i' = i + 1
    /\ UNCHANGED <<op, schedVars, argVars, pc, lines, current_section, result, gasVars, errVars>>

\* import, state-variable, constant and event lines: one section per run of
\* lines of the same kind
ScanGrouped(branch, kind, title, imp) ==
    /\ Scanning /\ Branch(Stripped) = branch
    /\ IF current_section # kind
       THEN /\ explanations' = Append(ClosePrevious(explanations, current_section, i),
                   [section |-> title, line_start |-> i + 1,
                    code |-> Stripped, importance |-> imp])
            /\ current_section' = kind
       ELSE /\ explanations' = AppendLastCode(explanations, Stripped)
            /\ UNCHANGED current_section
    /\ i' = i + 1
    /\ UNCHANGED <<op, schedVars, argVars, pc, lines, result, gasVars, errVars>>

ScanImport == ScanGrouped("import", "imports", "Import Statements", "high")

IsConstantLine(ls) == Contains(ls, "constant") \/ Contains(ls, "immutable")

ScanConstant ==
    /\ Scanning /\ IsConstantLine(Stripped)
    /\ ScanGrouped("type", "constants", "Constants & Immutable Variables", "medium")

ScanStateVariable ==
    /\ Scanning /\ ~IsConstantLine(Stripped)
    /\ ScanGrouped("type", "state_variables", "State Variables", "high")

ScanEvent == ScanGrouped("event", "events", "Events", "medium")

ScanContract ==
    /\ Scanning /\ Branch(Stripped) = "contract"
    /\ explanations' = Append(ClosePrevious(explanations, current_section, i),
           [section |-> "Contract Declaration", line_start |-> i + 1,
            code |-> Stripped, importance |-> "critical"])
    /\ current_section' = "contract_declaration"
    /\ i' = i + 1
    /\ UNCHANGED <<op, schedVars, argVars, pc, lines, result, gasVars, errVars>>

\* modifier, constructor: closed at once by the brace scan
ScanBlock(branch, title, imp) ==
    /\ Scanning /\ Branch(Stripped) = branch
    /\ LET end == BlockEnd(lines, i)
       IN  explanations' = Append(ClosePrevious(explanations, current_section, i),
               [section |-> title, line_start |-> i + 1, line_end |-> end + 1,
                code |-> JoinLines(lines, i + 1, end + 1), importance |-> imp])
    /\ current_section' = "None"
    /\ i' = i + 1
    /\ UNCHANGED <<op, schedVars, argVars, pc, lines, result, gasVars, errVars>>

ScanModifier ==
    /\ Scanning /\ Branch(Stripped) = "modifier"
    /\ ScanBlock("modifier", "Modifier: " \o BeforeParen(SecondWord(Stripped)), "high")

ScanConstructor == ScanBlock("constructor", "Constructor", "critical")

ScanFunction ==
    /\ Scanning /\ Branch(Stripped) = "function"
    /\ LET end == BlockEnd(lines, i)
       IN  explanations' = Append(ClosePrevious(explanations, current_section, i),
               [section |-> "Function: " \o BeforeParen(SecondWord(Stripped)),
                line_start |-> i + 1, line_end |-> end + 1,
                code |-> JoinLines(lines, i + 1, end + 1), importance |-> "high",
                visibility |-> Visibility(Stripped),
                state_mutability |-> StateMutability(Stripped)])
    /\ current_section' = "None"
    /\ i' = i + 1
    /\ UNCHANGED <<op, schedVars, argVars, pc, lines, result, gasVars, errVars>>

\* a line that matches no branch
ScanOther ==
    /\ Scanning /\ Branch(Stripped) = "none"
    /\ i' = i + 1
    /\ UNCHANGED <<op, schedVars, argVars, pc, lines, explanations, current_section, result, gasVars, errVars>>

\* len([e for e in explanations if e["section"].startswith(prefix)])
SectionsWith(expl, prefix) ==
    Cardinality({k \in 1..Len(expl) : StartsWith(expl[k].section, prefix)})

\* len([e for e in explanations if e["section"] == title])
SectionsNamed(expl, title) ==
    Cardinality({k \in 1..Len(expl) : expl[k].section = title})

ExplainSummary(expl) ==
    [total_sections |-> Len(expl),
     functions |-> SectionsWith(expl, "Function:"),
     modifiers |-> SectionsWith(expl, "Modifier:"),
     events |-> SectionsNamed(expl, "Events"),
     state_variables |-> IF SectionsNamed(expl, "State Variables") > 0 THEN 1 ELSE 0,
     complexity |-> IF Len(expl) < 5 THEN "low"
                    ELSE IF Len(expl) < 10 THEN "medium" ELSE "high"]

\* "Close the last section", the summary and the return
ExplainReturn ==
    /\ op = "explain_generated_code" /\ pc = "scan" /\ i = Len(lines)
    /\ LET final == IF current_section # "None" /\ explanations # <<>>
                    THEN SetLastLineEnd(explanations, Len(lines))
                    ELSE explanations
       IN  /\ explanations' = final
           /\ result' = [status |-> "success",
                         data |-> [explanations |-> final,
                                   summary |-> ExplainSummary(final),
                                   total_lines |-> Len(lines),
                                   complexity_score |-> Min(100, Len(final) * 8)]]
    /\ pc' = "done"
    /\ UNCHANGED <<op, schedVars, argVars, lines, i, current_section, gasVars, errVars>>

(***************************************************************************)
(* get_contract_metrics                                                    *)
(***************************************************************************)

\* re.search(kw + r'\s+(\w+)', s).group(1), "" when there is no match
RECURSIVE KeywordName(_, _, _)
KeywordName(s, kw, k) ==
    LET at == FindFrom(s, kw, k)
        ws == RunEnd(s, at + Len(kw), WhiteSpace)
        we == RunEnd(s, ws, WordChars)
    IN  IF at = 0 THEN ""
        ELSE IF ws > at + Len(kw) /\ we > ws THEN SubSeq(s, ws, we - 1)
        ELSE KeywordName(s, kw, at + 1)

\* \s*\w+\s+(\w+) tried at position q: group 2, "" when it does not match
VarAttempt(s, q) ==
    LET w1 == RunEnd(s, q, WhiteSpace)
        e1 == RunEnd(s, w1, WordChars)
        w2 == RunEnd(s, e1, WhiteSpace)
        e2 == RunEnd(s, w2, WordChars)
    IN  IF e1 > w1 /\ w2 > e1 /\ e2 > w2 THEN SubSeq(s, w2, e2 - 1) ELSE ""

VisibilityWords == {"public", "private", "internal"}

\* (public|private|internal)?\s*\w+\s+(\w+) tried at position p
VarAt(s, p) ==
    LET withGroup == {v \in VisibilityWords :
                         /\ OccursAt(s, v, p)
                         /\ VarAttempt(s, p + Len(v)) # ""}
    IN  IF withGroup # {}
        THEN VarAttempt(s, p + Len(CHOOSE v \in withGroup : TRUE))
        ELSE VarAttempt(s, p)

\* re.search(r'(public|private|internal)?\s*\w+\s+(\w+)', s).group(2)
RECURSIVE VarName(_, _)
VarName(s, p) ==
    LET here == VarAt(s, p)
    IN  IF p > Len(s) THEN ""
        ELSE IF here # "" THEN here
        ELSE VarName(s, p + 1)

MetricTypes == {"uint", "int", "address", "string", "bool", "bytes", "mapping"}

DeclarationWords == {"function", "modifier", "event", "constructor"}

\* the inventory a line adds to: <<list, name>>, list "none" when it adds nothing
ElementOf(line) ==
    LET st == Strip(line)
        fn == KeywordName(st, "function", 1)
        md == KeywordName(st, "modifier", 1)
        ev == KeywordName(st, "event", 1)
        vr == VarName(st, 1)
    IN  IF StartsWith(st, "import") THEN <<"imports", st>>
        ELSE IF /\ StartsWith(st, "function ")
                /\ ~Contains(st, "private") /\ ~Contains(st, "internal")
             THEN IF fn # "" THEN <<"functions", fn>> ELSE <<"none", "">>
        ELSE IF StartsWith(st, "modifier ")
             THEN IF md # "" THEN <<"modifiers", md>> ELSE <<"none", "">>
        ELSE IF StartsWith(st, "event ")
             THEN IF ev # "" THEN <<"events", ev>> ELSE <<"none", "">>
        ELSE IF \E t \in MetricTypes : StartsWith(st, t)
             THEN IF (\A w \in DeclarationWords : ~Contains(st, w)) /\ vr # ""
                  THEN <<"state_variables", vr>>
                  ELSE <<"none", "">>
        ELSE <<"none", "">>

\* the names one list of the inventory ends with, in line order; elems holds
\* ElementOf of every line
RECURSIVE Inventory(_, _)
Inventory(elems, list) ==
    IF elems = <<>> THEN <<>>
    ELSE (IF Head(elems)[1] = list THEN <<Head(elems)[2]>> ELSE <<>>)
         \o Inventory(Tail(elems), list)

complexity_keywords == <<"if", "else", "for", "while", "do", "switch", "case", "&&", "||", "?">>

CyclomaticComplexity(ls) ==
    1 + SeqSum([k \in 1..Len(ls) |->
                  SeqSum([n \in 1..Len(complexity_keywords) |->
                            Count(ls[k], complexity_keywords[n])])])

IsCommentLine(line) == StartsWith(Strip(line), "//")

CommentLines(ls) == Cardinality({k \in 1..Len(ls) : IsCommentLine(ls[k])})

CodeLines(ls) ==
    Cardinality({k \in 1..Len(ls) : Strip(ls[k]) # "" /\ ~IsCommentLine(ls[k])})

SecurityFeatures(ls) ==
    [reentrancy_guard |-> InCode(ls, "ReentrancyGuard"),
     access_control |-> \E w \in {"onlyOwner", "AccessControl", "Ownable"} : InCode(ls, w),
     pausable |-> InCode(ls, "Pausable"),
     safe_math |-> InCode(ls, "SafeMath") \/ InCode(ls, "pragma solidity ^0.8"),
     emergency_stop |-> InCode(ls, "emergencyStop"),
     rate_limiting |-> InCode(ls, "dailyLimit") \/ InCode(ls, "rateLimit")]

\* sum(security_features.values())
TrueFlags(flags) == Cardinality({f \in DOMAIN flags : flags[f]})

ComplexityScore(functions, cyclomatic, state_variables) ==
    Min(100, functions * 5 + cyclomatic * 2 + state_variables * 3)

MaintainabilityScore(complexity_score, comment_lines) ==
    Max(0, 100 - complexity_score + comment_lines * 2)

SecurityScore(flags) == TrueFlags(flags) * 15

\* the returned data; the two float fields (comment_ratio, overall) and the
\* gas_optimizations flags, which feed no score, are left out
MetricsData(ls) ==
    LET elems == [k \in 1..Len(ls) |-> ElementOf(ls[k])]
        functions == Inventory(elems, "functions")
        modifiers == Inventory(elems, "modifiers")
        events == Inventory(elems, "events")
        state_variables == Inventory(elems, "state_variables")
        imports == Inventory(elems, "imports")
        cyclomatic == CyclomaticComplexity(ls)
        comment_lines == CommentLines(ls)
        flags == SecurityFeatures(ls)
        complexity_score ==
            ComplexityScore(Len(functions), cyclomatic, Len(state_variables))
    IN  [line_metrics |->
           [total_lines |-> Len(ls), code_lines |-> CodeLines(ls),
            comment_lines |-> comment_lines,
            empty_lines |-> Len(ls) - CodeLines(ls) - comment_lines],
         contract_elements |->
           [functions |-> Len(functions), function_names |-> functions,
            modifiers |-> Len(modifiers), modifier_names |-> modifiers,
            events |-> Len(events), event_names |-> events,
            state_variables |-> Len(state_variables),
            variable_names |-> state_variables,
            imports |-> Len(imports)],
         complexity_metrics |->
           [cyclomatic_complexity |-> cyclomatic,
            complexity_score |-> complexity_score,
            complexity_rating |->
                IF complexity_score < 30 THEN "low"
                ELSE IF complexity_score < 60 THEN "medium" ELSE "high"],
         security_features |-> flags,
         quality_scores |->
           [maintainability |-> MaintainabilityScore(complexity_score, comment_lines),
            security |-> SecurityScore(flags)]]

GetContractMetrics ==
    /\ op = "get_contract_metrics" /\ pc = "start"
    /\ result' = [status |-> "success", data |-> MetricsData(lines)]
    /\ pc' = "done"
    /\ UNCHANGED <<op, schedVars, argVars, lines, i, explanations, current_section, gasVars, errVars>>

(***************************************************************************)
(* Source texts: every sequence of 1..MaxLines of these lines              *)
(***************************************************************************)

SourceLines ==
    {"pragma solidity ^0.8.19;",
     "import './Ownable.sol';",
     "contract Foo { function bar() public {} }",
     "  uint256 public total;",
     "  uint256 constant MAX = 10;",
     "  event Sent(address to);",
     "  modifier onlyOwner() {",
     "  constructor() {",
     "  function bar() public",
     "  { if (a) { b = 1; }",
     "  }",
     "// note"}

SeqsUpTo(S, n) == UNION {[1..m -> S] : m \in 1..n}

Init ==
    /\ op \in {"explain_generated_code", "get_contract_metrics"}
    /\ pc = IF op = "explain_generated_code" THEN "scan" ELSE "start"
    /\ lines \in SeqsUpTo(SourceLines, MaxLines)
    /\ i = 0
    /\ explanations = <<>>
    /\ current_section = "None"
    /\ result = NoResult
    /\ bytecode = "" /\ abi = <<>> /\ function_estimates = <<>>
    /\ baseline = NoResult /\ added_to = "None"
    /\ errors_json = NoErrors /\ errors = <<>> /\ parsed_errors = <<>>
    /\ NoArgs /\ NoOther

NextExplain ==
    \/ ScanPragma
    \/ ScanImport
    \/ ScanContract
    \/ ScanConstant
    \/ ScanStateVariable
    \/ ScanEvent
    \/ ScanModifier
    \/ ScanConstructor
    \/ ScanFunction
    \/ ScanOther
    \/ ExplainReturn

Next == NextExplain \/ GetContractMetrics

\* explain_generated_code or get_contract_metrics on one source text
Spec == Init /\ [][Next]_vars

InitExplain == Init /\ op = "explain_generated_code"

\* explain_generated_code alone
SpecExplain == InitExplain /\ [][NextExplain]_vars

(***************************************************************************)
(* analyze_gas_usage                                                       *)
(***************************************************************************)

UpperString == "ABCDEFGHIJKLMNOPQRSTUVWXYZ"

LowerString == "abcdefghijklmnopqrstuvwxyz"

LowerChar(c) ==
    LET at == FindFrom(UpperString, c, 1)
    IN  IF at > 0 THEN Char(LowerString, at) ELSE c

\* s.lower()
RECURSIVE Lower(_)
Lower(s) ==
    IF s = "" THEN ""
    ELSE IF Len(s) = 1 THEN LowerChar(s)
    ELSE Lower(SubSeq(s, 1, Len(s) \div 2)) \o Lower(SubSeq(s, Len(s) \div 2 + 1, Len(s)))

\* "if contract_code:" for contract_code = '\n'.join(ls)
HasSource(ls) == ls # <<"">>

\* a base estimate that looks at the name before the mutability
BaseGasNameFirst(func_name, state_mutability) ==
    IF Contains(Lower(func_name), "mint") THEN 50000
    ELSE IF Contains(Lower(func_name), "transfer") THEN 21000
    ELSE IF Contains(Lower(func_name), "approve") THEN 45000
    ELSE IF state_mutability \in {"view", "pure"} THEN 500
    ELSE 25000

\* "Base gas estimates by function type"
BaseGas(func_name, state_mutability) ==
    IF state_mutability \in {"view", "pure"} THEN 500
    ELSE IF Contains(Lower(func_name), "mint") THEN 50000
    ELSE IF Contains(Lower(func_name), "transfer") THEN 21000
    ELSE IF Contains(Lower(func_name), "approve") THEN 45000
    ELSE 25000

\* the last line (1-based) that holds 'function <name>', 0 when none does
RECURSIVE LastLineWith(_, _, _)
LastLineWith(ls, p, k) ==
    IF k > Len(ls) THEN 0
    ELSE IF LastLineWith(ls, p, k + 1) > 0 THEN LastLineWith(ls, p, k + 1)
    ELSE IF Contains(ls[k], p) THEN k
    ELSE 0

\* the first line (1-based) that holds 'function <name>', 0 when none does
RECURSIVE FirstLineWith(_, _, _)
FirstLineWith(ls, p, k) ==
    IF k > Len(ls) THEN 0
    ELSE IF Contains(ls[k], p) THEN k
    ELSE FirstLineWith(ls, p, k + 1)

\* the line at which the loop over the source breaks; the last line when it
\* never does
RECURSIVE GasBodyScan(_, _, _, _)
GasBodyScan(ls, start, j, brace_count) ==
    IF j > Len(ls) THEN Len(ls)
    ELSE LET bc == brace_count + Count(ls[j], "{") - Count(ls[j], "}")
         IN  IF bc = 0 /\ \E k \in start..j : Contains(ls[k], "{")
             THEN j
             ELSE GasBodyScan(ls, start, j + 1, bc)

\* func_lines
FuncLines(ls, func_name) ==
    LET start == FirstLineWith(ls, "function " \o func_name, 1)
    IN  IF start = 0 THEN <<>>
        ELSE SubSeq(ls, start, GasBodyScan(ls, start, start, 0))

\* "Add gas for specific operations"
BodyGas(body) ==
    1000 * CountCode(body, "emit ") + 10000 * CountCode(body, ".call(")
    + 500 * CountCode(body, "require(") + 5000 * CountCode(body, "mapping(")

GasCategory(gas) ==
    IF gas < 30000 THEN "low" ELSE IF gas < 60000 THEN "medium" ELSE "high"

\* item.get('stateMutability', 'nonpayable')
MutabilityOf(item) ==
    IF "stateMutability" \in DOMAIN item THEN item.stateMutability ELSE "nonpayable"

EstimateOf(item, ls) ==
    LET base == BaseGas(item.name, MutabilityOf(item))
        gas == IF HasSource(ls) THEN base + BodyGas(FuncLines(ls, item.name)) ELSE base
    IN  [name |-> item.name, estimated_gas |-> gas,
         state_mutability |-> MutabilityOf(item), gas_category |-> GasCategory(gas)]

\* a table that keeps one estimate per ABI entry
PutEstimatePerEntry(est, rec) == Append(est, rec)

\* function_estimates[func_name] = {...}: a dict keeps the place of a key it
\* already holds
PutEstimate(est, rec) ==
    IF \E k \in 1..Len(est) : est[k].name = rec.name
    THEN [k \in 1..Len(est) |-> IF est[k].name = rec.name THEN rec ELSE est[k]]
    ELSE Append(est, rec)

\* item['type'] or item['name'] raises KeyError
IsMalformed(item) ==
    IF "type" \notin DOMAIN item THEN TRUE
    ELSE item.type = "function" /\ "name" \notin DOMAIN item

\* the key whose lookup fails
MissingKey(item) == IF "type" \notin DOMAIN item THEN "type" ELSE "name"

InAbiLoop == op = "analyze_gas_usage" /\ pc = "items" /\ i < Len(abi)

GasFunctionItem ==
    /\ InAbiLoop /\ ~IsMalformed(abi[i + 1]) /\ abi[i + 1].type = "function"
    /\ function_estimates' = PutEstimate(function_estimates, EstimateOf(abi[i + 1], lines))
    /\ i' = i + 1
    /\ UNCHANGED <<op, schedVars, argVars, pc, lines, explanations, current_section, result,
                   bytecode, abi, baseline, added_to, errVars>>

GasSkipItem ==
    /\ InAbiLoop /\ ~IsMalformed(abi[i + 1]) /\ abi[i + 1].type # "function"
    /\ i' = i + 1
    /\ UNCHANGED <<op, schedVars, argVars, pc, lines, explanations, current_section, result,
                   gasVars, errVars>>

\* the KeyError leaves the loop and is caught by "except Exception"
GasMalformedItem ==
    /\ InAbiLoop /\ IsMalformed(abi[i + 1])
    /\ result' = [status |-> "error",
                  error_message |-> "Gas analysis failed: '" \o MissingKey(abi[i + 1]) \o "'"]
    /\ pc' = "done"
    /\ UNCHANGED <<op, schedVars, argVars, lines, i, explanations, current_section, gasVars, errVars>>

\* ', '.join(names)
RECURSIVE JoinNames(_)
JoinNames(names) ==
    IF names = <<>> THEN ""
    ELSE IF Len(names) = 1 THEN names[1]
    ELSE names[1] \o ", " \o JoinNames(Tail(names))

\* the names of the functions estimated at 60000 or more
RECURSIVE HighGasFunctionsFrom60000(_)
HighGasFunctionsFrom60000(est) ==
    IF est = <<>> THEN <<>>
    ELSE (IF Head(est).estimated_gas >= 60000 THEN <<Head(est).name>> ELSE <<>>)
         \o HighGasFunctionsFrom60000(Tail(est))

\* [name for name, data in function_estimates.items() if data["estimated_gas"] > 60000]
RECURSIVE HighGasFunctions(_)
HighGasFunctions(est) ==
    IF est = <<>> THEN <<>>
    ELSE (IF Head(est).estimated_gas > 60000 THEN <<Head(est).name>> ELSE <<>>)
         \o HighGasFunctions(Tail(est))

DeploymentGas(code) == (Len(code) \div 2) * 200

\* "Gas optimization suggestions"
Optimizations(code, est, ls) ==
    (IF DeploymentGas(code) > 1000000
     THEN <<"Contract is large. Consider splitting into multiple contracts or using libraries.">>
     ELSE <<>>)
    \o (IF HighGasFunctions(est) # <<>>
        THEN <<"High gas functions detected: " \o JoinNames(HighGasFunctions(est))
               \o ". Consider optimization.">>
        ELSE <<>>)
    \o (IF HasSource(ls) /\ CountCode(ls, "for (") > 3
        THEN <<"Multiple loops detected. Consider batch processing or pagination.">>
        ELSE <<>>)
    \o (IF HasSource(ls) /\ CountCode(ls, "mapping(") > 5
        THEN <<"Many mappings detected. Consider struct packing for gas efficiency.">>
        ELSE <<>>)

\* the returned data; the float deployment_cost_eth is left out
GasData(code, est, ls) ==
    [deployment_gas_estimate |-> DeploymentGas(code),
     function_gas_estimates |-> est,
     total_functions |-> Len(est),
     average_function_gas |->
         IF est # <<>>
         THEN SeqSum([k \in 1..Len(est) |-> est[k].estimated_gas]) \div Len(est)
         ELSE 0,
     optimizations |-> Optimizations(code, est, ls),
     gas_efficiency_score |-> Max(0, 100 - Len(Optimizations(code, est, ls)) * 15)]

GasReturn ==
    /\ op = "analyze_gas_usage" /\ pc = "items" /\ i = Len(abi)
    /\ result' = [status |-> "success", data |-> GasData(bytecode, function_estimates, lines)]
    /\ pc' = "done"
    /\ UNCHANGED <<op, schedVars, argVars, lines, i, explanations, current_section, gasVars, errVars>>

\* the names of the function entries of an ABI
FunctionNames(entries) ==
    {entries[k].name : k \in {n \in 1..Len(entries) :
        ~IsMalformed(entries[n]) /\ entries[n].type = "function"}}

\* the declaration line of the function named f: the first line holding
\* 'function f(', 0 when there is none
DeclarationLine(ls, f) == FirstLineWith(ls, "function " \o f \o "(", 1)

\* The caller edits the source and calls again: one more require( goes on a
\* line of its own right before the closing line of the body of f, a function
\* the ABI names, and the estimate of the source as it was is kept for
\* comparison.
AddRequire ==
    /\ op = "analyze_gas_usage" /\ pc = "done"
    /\ baseline = NoResult /\ result.status = "success" /\ HasSource(lines)
    /\ \E f \in FunctionNames(abi) :
         LET decl == DeclarationLine(lines, f)
             close == BlockEnd(lines, decl - 1) + 1
         IN  /\ decl > 0 /\ close > decl
             /\ \E k \in decl..(close - 1) : Contains(lines[k], "{")
             /\ lines' = SubSeq(lines, 1, close - 1) \o <<"  require(ok);">>
                         \o SubSeq(lines, close, Len(lines))
             /\ added_to' = f
    /\ baseline' = result
    /\ result' = NoResult
    /\ function_estimates' = <<>>
    /\ i' = 0
    /\ pc' = "items"
    /\ UNCHANGED <<op, schedVars, argVars, explanations, current_section, bytecode, abi, errVars>>

\* ABI entries: functions of every mutability, names that hold one, two or
\* none of the rule words (in either case), an entry without stateMutability,
\* an event and an entry without a type
AbiEntries ==
    {[type |-> "function", name |-> "totalMinted", stateMutability |-> "view"],
     [type |-> "function", name |-> "add", stateMutability |-> "pure"],
     [type |-> "function", name |-> "safeMint", stateMutability |-> "nonpayable"],
     [type |-> "function", name |-> "mintAndTransfer", stateMutability |-> "payable"],
     [type |-> "function", name |-> "transferFrom", stateMutability |-> "nonpayable"],
     [type |-> "function", name |-> "approveTransfer", stateMutability |-> "nonpayable"],
     [type |-> "function", name |-> "approve"],
     [type |-> "function", name |-> "withdraw", stateMutability |-> "payable"],
     [type |-> "function", name |-> "safeMint", stateMutability |-> "view"],
     [type |-> "event", name |-> "Transfer"],
     [name |-> "broken"]}

\* Bound on the number of entries of an ABI.
MaxAbi == 2

SampleSource ==
    <<"function safeMint(address to) public {",
      "  require(to != address(0));",
      "  emit Transfer(address(0), to);",
      "}">>

InitGas ==
    /\ op = "analyze_gas_usage" /\ pc = "items"
    /\ lines \in {<<"">>, SampleSource}
    /\ bytecode \in {"", "6080"}
    /\ abi \in {<<>>} \cup SeqsUpTo(AbiEntries, MaxAbi)
    /\ i = 0 /\ function_estimates = <<>>
    /\ baseline = NoResult /\ added_to = "None"
    /\ explanations = <<>> /\ current_section = "None" /\ result = NoResult
    /\ errors_json = NoErrors /\ errors = <<>> /\ parsed_errors = <<>>
    /\ NoArgs /\ NoOther

NextGas == GasFunctionItem \/ GasSkipItem \/ GasMalformedItem \/ GasReturn

\* analyze_gas_usage over every ABI of up to MaxAbi entries, without source or
\* with the sample source
SpecGas == InitGas /\ [][NextGas]_vars

\* Bound on the number of lines of a source handed to analyze_gas_usage.
MaxGasLines == 4

GasLines ==
    {"function transferFrom(address a) public {",
     "function transfer(address a) public {",
     "  emit Sent(a);",
     "}"}

RequireAbiEntries ==
    {[type |-> "function", name |-> "transfer", stateMutability |-> "nonpayable"],
     [type |-> "function", name |-> "transferFrom", stateMutability |-> "nonpayable"],
     [type |-> "event", name |-> "Sent"],
     [name |-> "broken"]}

InitGasRequire ==
    /\ op = "analyze_gas_usage" /\ pc = "items"
    /\ lines \in SeqsUpTo(GasLines, MaxGasLines)
    /\ bytecode = "6080"
    /\ abi \in SeqsUpTo(RequireAbiEntries, MaxAbi)
    /\ i = 0 /\ function_estimates = <<>>
    /\ baseline = NoResult /\ added_to = "None"
    /\ explanations = <<>> /\ current_section = "None" /\ result = NoResult
    /\ errors_json = NoErrors /\ errors = <<>> /\ parsed_errors = <<>>
    /\ NoArgs /\ NoOther

NextGasRequire == NextGas \/ AddRequire

\* analyze_gas_usage on a source, then again on the source with one more
\* require( in the body of one function
SpecGasRequire == InitGasRequire /\ [][NextGasRequire]_vars

\* sources whose function bodies hold the operations that add gas: a function
\* declared after one whose name starts with its own, estimates of exactly
\* 60000, above 60000 and of exactly 30000, a source that declares none of the
\* functions, and a body with nested braces followed by a line outside it
BodySources ==
    {<<"function transferFrom(address a) public {", "  emit Sent(a);", "}",
       "function transfer(address a) public {", "}">>,
     <<"function safeMint(address to) public {", "  to.call(data);", "}">>,
     <<"function safeMint(address to) public {", "  to.call(data); emit Minted(to);", "}">>,
     <<"function withdraw() public {", "  mapping(address => uint) storage m = owed;", "}">>,
     <<"uint256 total;">>,
     <<"function transfer(address a) public", "{ if (ok) { emit Sent(a); }",
       "  require(a != address(0));", "}", "emit Outside();">>}

BodyAbiEntries ==
    {[type |-> "function", name |-> "transfer", stateMutability |-> "nonpayable"],
     [type |-> "function", name |-> "transferFrom", stateMutability |-> "nonpayable"],
     [type |-> "function", name |-> "safeMint", stateMutability |-> "nonpayable"],
     [type |-> "function", name |-> "safeMint", stateMutability |-> "view"],
     [type |-> "function", name |-> "withdraw", stateMutability |-> "payable"],
     [type |-> "event", name |-> "Sent"],
     [name |-> "broken"]}

\* ABIs of three entries: three names whose estimates do not divide evenly, and
\* a name that comes again after another one
LongAbis ==
    {<<[type |-> "function", name |-> "transfer", stateMutability |-> "nonpayable"],
       [type |-> "function", name |-> "transferFrom", stateMutability |-> "nonpayable"],
       [type |-> "function", name |-> "withdraw", stateMutability |-> "payable"]>>,
     <<[type |-> "function", name |-> "safeMint", stateMutability |-> "nonpayable"],
       [type |-> "function", name |-> "transfer", stateMutability |-> "nonpayable"],
       [type |-> "function", name |-> "safeMint", stateMutability |-> "view"]>>}

InitGasBody ==
    /\ op = "analyze_gas_usage" /\ pc = "items"
    /\ lines \in BodySources
    /\ bytecode = "6080"
    /\ abi \in SeqsUpTo(BodyAbiEntries, MaxAbi) \cup LongAbis
    /\ i = 0 /\ function_estimates = <<>>
    /\ baseline = NoResult /\ added_to = "None"
    /\ explanations = <<>> /\ current_section = "None" /\ result = NoResult
    /\ errors_json = NoErrors /\ errors = <<>> /\ parsed_errors = <<>>
    /\ NoArgs /\ NoOther

\* analyze_gas_usage over every ABI of up to MaxAbi entries on the sources
\* with function bodies
SpecGasBody == InitGasBody /\ [][NextGas]_vars

(***************************************************************************)
(* handle_compilation_errors                                               *)
(***************************************************************************)

\* "line_number": None
NoLineNumber == -1

DigitString == "0123456789"

\* int(s) for a string of decimal digits
RECURSIVE ToInt(_)
ToInt(s) ==
    IF s = "" THEN 0
    ELSE ToInt(SubSeq(s, 1, Len(s) - 1)) * 10
         + (FindFrom(DigitString, Char(s, Len(s)), 1) - 1)

\* r':(\d+):' matches at position k: a colon, the whole run of digits that
\* follows, not empty, and a colon right behind it
LineMatchAt(s, k) ==
    LET e == RunEnd(s, k + 1, Digits)
    IN  Char(s, k) = ":" /\ e > k + 1 /\ e <= Len(s) /\ Char(s, e) = ":"

\* a search that keeps the last match in place of the first
RECURSIVE LineMatchLast(_, _)
LineMatchLast(s, k) ==
    IF k < 1 THEN 0
    ELSE IF LineMatchAt(s, k) THEN k
    ELSE LineMatchLast(s, k - 1)

LineMatchFromEnd(s, k) == LineMatchLast(s, Len(s))

\* re.search(r':(\d+):', s) tries the start positions from the left: the
\* position of the match, 0 for no match
RECURSIVE LineMatch(_, _)
LineMatch(s, k) ==
    IF k > Len(s) THEN 0
    ELSE IF LineMatchAt(s, k) THEN k
    ELSE LineMatch(s, k + 1)

\* int(line_match.group(1)), or None
LineNumber(s) ==
    LET m == LineMatch(s, 1)
    IN  IF m = 0 THEN NoLineNumber
        ELSE ToInt(SubSeq(s, m + 1, RunEnd(s, m + 1, Digits) - 1))

\* a chain of tests that looks for 'Warning' first
ErrorTypeWarningFirst(s) ==
    IF Contains(s, "Warning") THEN "warning"
    ELSE IF Contains(s, "ParserError") THEN "syntax_error"
    ELSE IF Contains(s, "TypeError") THEN "type_error"
    ELSE IF Contains(s, "DeclarationError") THEN "declaration_error"
    ELSE IF Contains(s, "CompilerError") THEN "compiler_error"
    ELSE "unknown"

\* "Categorize common errors": error_type
ErrorType(s) ==
    IF Contains(s, "ParserError") THEN "syntax_error"
    ELSE IF Contains(s, "TypeError") THEN "type_error"
    ELSE IF Contains(s, "DeclarationError") THEN "declaration_error"
    ELSE IF Contains(s, "CompilerError") THEN "compiler_error"
    ELSE IF Contains(s, "Warning") THEN "warning"
    ELSE "unknown"

DefaultSuggestion == "Check the error message for details"

\* "Categorize common errors": suggestion
Suggestion(s) ==
    IF Contains(s, "ParserError") THEN
        IF Contains(s, "Expected")
        THEN "Check syntax - missing semicolon, bracket, or parenthesis"
        ELSE IF Contains(s, "Unexpected")
        THEN "Remove unexpected character or check syntax"
        ELSE DefaultSuggestion
    ELSE IF Contains(s, "TypeError") THEN
        IF Contains(s, "not found")
        THEN "Check if variable/function is declared and spelled correctly"
        ELSE IF Contains(s, "not compatible")
        THEN "Check data types - ensure compatible types for assignment/comparison"
        ELSE IF Contains(s, "not callable")
        THEN "Check if you're trying to call a variable as a function"
        ELSE DefaultSuggestion
    ELSE IF Contains(s, "DeclarationError") THEN
        IF Contains(s, "already declared")
        THEN "Variable or function name already exists - use a different name"
        ELSE IF Contains(s, "not declared")
        THEN "Declare the variable or import the contract/library"
        ELSE DefaultSuggestion
    ELSE IF Contains(s, "CompilerError")
    THEN "Internal compiler error - try different solidity version"
    ELSE IF Contains(s, "Warning") THEN
        IF Contains(s, "unused")
        THEN "Remove unused variables/imports or prefix with underscore"
        ELSE IF Contains(s, "deprecated")
        THEN "Update to use newer syntax or functions"
        ELSE DefaultSuggestion
    ELSE DefaultSuggestion

ErrorInfo(s) ==
    [original_error |-> s, error_type |-> ErrorType(s),
     line_number |-> LineNumber(s), suggestion |-> Suggestion(s)]

\* json text: the characters json.loads skips between tokens
JsonSpace == {" ", "\t", "\n"}

\* json text: the character a backslash escape stands for
Unescape(c) == IF c = "n" THEN "\n" ELSE IF c = "t" THEN "\t" ELSE c

\* json text: the string whose body starts at k (behind the opening quote),
\* with the position behind its closing quote
RECURSIVE JsonString(_, _, _)
JsonString(t, k, acc) ==
    IF k > Len(t) THEN [value |-> acc, next |-> k]
    ELSE IF Char(t, k) = "\"" THEN [value |-> acc, next |-> k + 1]
    ELSE IF Char(t, k) = "\\" THEN JsonString(t, k + 2, acc \o Unescape(Char(t, k + 1)))
    ELSE JsonString(t, k + 1, acc \o Char(t, k))

\* json text: the strings of an array whose next token starts at or behind k
RECURSIVE JsonItems(_, _, _)
JsonItems(t, k, acc) ==
    LET p == RunEnd(t, k, JsonSpace \cup {","})
    IN  IF p > Len(t) \/ Char(t, p) # "\"" THEN acc
        ELSE LET str == JsonString(t, p + 1, "")
             IN  JsonItems(t, str.next, Append(acc, [type |-> "str", value |-> str.value]))

\* json.loads(text) for a text that is an array of strings, well formed once
\* it has opened, or a text that holds no JSON value at its start
JsonLoads(t) ==
    LET p == RunEnd(t, 1, JsonSpace)
    IN  IF p <= Len(t) /\ Char(t, p) = "["
        THEN [ok |-> TRUE, value |-> JsonItems(t, p + 1, <<>>)]
        ELSE [ok |-> FALSE, value |-> <<>>]

\* errors = json.loads(errors_json) if isinstance(errors_json, str) else errors_json
LoadErrors ==
    /\ op = "handle_compilation_errors" /\ pc = "load"
    /\ IF errors_json.type = "list" THEN TRUE ELSE JsonLoads(errors_json.value).ok
    /\ errors' = IF errors_json.type = "list" THEN errors_json.value
                 ELSE JsonLoads(errors_json.value).value
    /\ pc' = "loop"
    /\ UNCHANGED <<op, schedVars, argVars, lines, i, explanations, current_section, result, gasVars,
                   errors_json, parsed_errors>>

\* json.loads raises on a text without a JSON value at its start
LoadErrorsFails ==
    /\ op = "handle_compilation_errors" /\ pc = "load"
    /\ errors_json.type = "str" /\ ~JsonLoads(errors_json.value).ok
    /\ result' = [status |-> "error",
                  error_message |->
                      "Error parsing failed: Expecting value: line 1 column 1 (char 0)"]
    /\ pc' = "done"
    /\ UNCHANGED <<op, schedVars, argVars, lines, i, explanations, current_section, gasVars, errVars>>

InErrorLoop == op = "handle_compilation_errors" /\ pc = "loop" /\ i < Len(errors)

\* a round that keeps only the messages it can classify
ParseErrorDropsUnknown ==
    /\ InErrorLoop /\ errors[i + 1].type = "str"
    /\ parsed_errors' = IF ErrorType(errors[i + 1].value) = "unknown" THEN parsed_errors
                        ELSE Append(parsed_errors, ErrorInfo(errors[i + 1].value))
    /\ i' = i + 1
    /\ UNCHANGED <<op, schedVars, argVars, pc, lines, explanations, current_section, result, gasVars,
                   errors_json, errors>>

\* one round of "for error in errors" on a message
ParseError ==
    /\ InErrorLoop /\ errors[i + 1].type = "str"
    /\ parsed_errors' = Append(parsed_errors, ErrorInfo(errors[i + 1].value))
    /\ i' = i + 1
    /\ UNCHANGED <<op, schedVars, argVars, pc, lines, explanations, current_section, result, gasVars,
                   errors_json, errors>>

\* re.search raises TypeError on an item that is no string (the text is the
\* one of Python 3.11)
ParseErrorFails ==
    /\ InErrorLoop /\ errors[i + 1].type # "str"
    /\ result' = [status |-> "error",
                  error_message |-> "Error parsing failed: expected string or "
                      \o "bytes-like object, got '" \o errors[i + 1].type \o "'"]
    /\ pc' = "done"
    /\ UNCHANGED <<op, schedVars, argVars, lines, i, explanations, current_section, gasVars, errVars>>

\* [e["error_type"] for e in parsed_errors]
ErrorTypes(parsed) == [k \in 1..Len(parsed) |-> parsed[k].error_type]

SeqRange(q) == {q[k] : k \in 1..Len(q)}

\* the lists that hold every element of S once: list(set(...)) may come in
\* any of these orders
Orders(S) ==
    {q \in [1..Cardinality(S) -> S] : \A a, b \in 1..Cardinality(S) : q[a] = q[b] => a = b}

\* len([e for e in parsed_errors if e["error_type"] in kinds])
CountOfTypes(parsed, kinds) ==
    Cardinality({k \in 1..Len(parsed) : parsed[k].error_type \in kinds})

\* "Generate general suggestions"
GeneralSuggestions(types) ==
    (IF "syntax_error" \in types
     THEN <<"Review code syntax carefully - check for missing semicolons, brackets, and parentheses">>
     ELSE <<>>)
    \o (IF "type_error" \in types
        THEN <<"Verify all variable types and function signatures match their usage">>
        ELSE <<>>)
    \o (IF "declaration_error" \in types
        THEN <<"Ensure all variables and functions are properly declared before use">>
        ELSE <<>>)

\* a tally that takes compiler errors for high and unknown diagnostics for low
SeverityCountCompilerHigh(parsed) ==
    [critical |-> CountOfTypes(parsed, {"syntax_error"}),
     high |-> CountOfTypes(parsed, {"type_error", "declaration_error", "compiler_error"}),
     medium |-> CountOfTypes(parsed, {"warning"}),
     low |-> CountOfTypes(parsed, {"unknown"})]

SeverityCount(parsed) ==
    [critical |-> CountOfTypes(parsed, {"syntax_error", "compiler_error"}),
     high |-> CountOfTypes(parsed, {"type_error", "declaration_error"}),
     medium |-> CountOfTypes(parsed, {"warning"}),
     low |-> 0]

AllErrorTypes ==
    {"syntax_error", "type_error", "declaration_error", "compiler_error", "warning", "unknown"}

ErrorsReturn ==
    /\ op = "handle_compilation_errors" /\ pc = "loop" /\ i = Len(errors)
    /\ \E order \in Orders(SeqRange(ErrorTypes(parsed_errors))) :
         result' = [status |-> "success",
                    data |-> [parsed_errors |-> parsed_errors,
                              total_errors |-> Len(parsed_errors),
                              error_types |-> order,
                              severity_count |-> SeverityCount(parsed_errors),
                              general_suggestions |->
                                  GeneralSuggestions(SeqRange(ErrorTypes(parsed_errors))),
                              fixable_errors |->
                                  CountOfTypes(parsed_errors,
                                               AllErrorTypes \ {"compiler_error"})]]
    /\ pc' = "done"
    /\ UNCHANGED <<op, schedVars, argVars, lines, i, explanations, current_section, gasVars, errVars>>

\* compiler messages: one per marker, with and without a position, messages
\* that hold two markers, a position behind a colon that opens no match, a
\* line number with a leading zero, and a message without marker
Messages ==
    {"contract.sol:12:5: ParserError: Expected ';' but got '}'",
     "a.sol:3:1: TypeError: Member \"balance\" not found",
     "DeclarationError: Identifier already declared.",
     "CompilerError: Stack too deep",
     "a.sol:7:9: Warning: Unused local variable, unused import",
     "b.sol:040:2: Warning: TypeError is deprecated",
     "Warning: ParserError: Unexpected token at ::8:",
     "Error: c.sol:x:21:4 DeclarationError and CompilerError",
     "Internal error at 10:20"}

\* the items of a list: the messages and an item that is no string
ErrorItems == {[type |-> "str", value |-> m] : m \in Messages} \cup {[type |-> "dict"]}

\* the texts handed in place of a list
JsonTexts ==
    {"[]",
     "not json",
     " [\"a.sol:3:1: TypeError: Member \\\"balance\\\" not found\", \"Warning: unused\"]"}

\* Bound on the number of messages of a list.
MaxErrors == 2

InitErrors ==
    /\ op = "handle_compilation_errors" /\ pc = "load"
    /\ errors_json \in
         {[type |-> "list", value |-> q] : q \in {<<>>} \cup SeqsUpTo(ErrorItems, MaxErrors)}
         \cup {[type |-> "str", value |-> t] : t \in JsonTexts}
    /\ errors = <<>> /\ parsed_errors = <<>>
    /\ i = 0 /\ result = NoResult
    /\ lines = <<"">> /\ explanations = <<>> /\ current_section = "None"
    /\ bytecode = "" /\ abi = <<>> /\ function_estimates = <<>>
    /\ baseline = NoResult /\ added_to = "None"
    /\ NoArgs /\ NoOther

NextErrors ==
    LoadErrors \/ LoadErrorsFails \/ ParseError \/ ParseErrorFails \/ ErrorsReturn

SpecErrors == InitErrors /\ [][NextErrors]_vars

(***************************************************************************)
(* validate_user_input                                                     *)
(***************************************************************************)

\* the characters str.strip() and str.split() take for white space
SpaceChars == {" ", "\t", "\n", "\r"}

\* s.strip()
RECURSIVE StripSpace(_)
StripSpace(s) ==
    IF s = "" THEN ""
    ELSE IF Char(s, 1) \in SpaceChars THEN StripSpace(SubSeq(s, 2, Len(s)))
    ELSE IF Char(s, Len(s)) \in SpaceChars THEN StripSpace(SubSeq(s, 1, Len(s) - 1))
    ELSE s

\* len(description.split()): the number of places where a word starts
WordCount(s) ==
    Cardinality({k \in 1..Len(s) :
        /\ Char(s, k) \notin SpaceChars
        /\ IF k = 1 THEN TRUE ELSE Char(s, k - 1) \in SpaceChars})

\* any(keyword in description for keyword in keywords)
AnyIn(description, keywords) == \E kw \in keywords : Contains(description, kw)

\* contract_indicators, in the order of the dict
contract_indicators ==
    <<[key |-> "erc20", keywords |-> {"token", "erc20", "fungible", "currency", "coin"}],
      [key |-> "erc721", keywords |-> {"nft", "erc721", "non-fungible", "collectible", "unique"}],
      [key |-> "erc1155", keywords |-> {"erc1155", "multi-token", "batch", "gaming"}],
      [key |-> "dao", keywords |-> {"dao", "governance", "voting", "proposal", "community"}],
      [key |-> "dex", keywords |-> {"dex", "exchange", "swap", "liquidity", "trading"}],
      [key |-> "staking", keywords |-> {"staking", "stake", "reward", "yield", "farming"}],
      [key |-> "marketplace", keywords |-> {"marketplace", "auction", "buy", "sell", "listing"}],
      [key |-> "multisig",
       keywords |-> {"multisig", "multi-signature", "multiple owners", "threshold"}]>>

\* requirement_keywords, in the order of the dict
requirement_keywords ==
    <<[key |-> "name", keywords |-> {"name", "called", "title"}],
      [key |-> "symbol", keywords |-> {"symbol", "ticker", "abbreviation"}],
      [key |-> "supply", keywords |-> {"supply", "amount", "quantity", "total"}],
      [key |-> "features", keywords |-> {"feature", "function", "capability", "ability"}],
      [key |-> "access", keywords |-> {"owner", "admin", "permission", "access", "control"}],
      [key |-> "security", keywords |-> {"secure", "safe", "protection", "guard"}]>>

\* the keys of the entries of a keyword table that the description matches,
\* in the order of the table
RECURSIVE MatchedKeys(_, _)
MatchedKeys(table, description) ==
    IF table = <<>> THEN <<>>
    ELSE (IF AnyIn(description, Head(table).keywords) THEN <<Head(table).key>> ELSE <<>>)
         \o MatchedKeys(Tail(table), description)

\* a length term that takes 100 words for a long text already
LengthTermFrom100(word_count) ==
    IF word_count < 5 THEN -20 ELSE IF word_count >= 100 THEN 20 ELSE 10

\* "Check description length and detail": the change of clarity_score
LengthTerm(word_count) ==
    IF word_count < 5 THEN -20 ELSE IF word_count > 100 THEN 20 ELSE 10

\* clarity_score before the feasibility check
ClarityScore(detected_types, found_requirements, word_count) ==
    (IF detected_types # <<>> THEN 30 ELSE 0) + 10 * Len(found_requirements)
    + LengthTerm(word_count)

\* "Estimate complexity"
EstimatedComplexity(description, found_requirements) ==
    LET complexity_score ==
            1 + (IF AnyIn(description,
                          {"complex", "advanced", "custom", "sophisticated", "enterprise"})
                 THEN 2 ELSE 0)
              + (IF AnyIn(description,
                          {"upgrade", "proxy", "oracle", "multi", "batch", "governance"})
                 THEN 1 ELSE 0)
              + (IF Len(found_requirements) > 4 THEN 1 ELSE 0)
    IN  IF complexity_score <= 2 THEN "simple"
        ELSE IF complexity_score <= 4 THEN "moderate"
        ELSE "complex"

\* questions that ask for the name before the contract type and for symbol and
\* supply of any detected type
ClarifyingQuestionsAnyType(detected_types, found, complexity) ==
    LET recommended == IF detected_types # <<>> THEN detected_types[1] ELSE "None"
    IN  (IF "name" \notin SeqRange(found) /\ recommended # "None"
         THEN <<"What would you like to name your contract/token?">> ELSE <<>>)
        \o (IF detected_types = <<>>
            THEN <<"What type of smart contract do you want to create? (e.g., ERC-20 token, NFT, DAO)">>
            ELSE <<>>)
        \o (IF recommended # "None" /\ "symbol" \notin SeqRange(found)
            THEN <<"What symbol should your token have? (e.g., BTC, ETH)">> ELSE <<>>)
        \o (IF recommended # "None" /\ "supply" \notin SeqRange(found)
            THEN <<"What should be the total supply of your token?">> ELSE <<>>)
        \o (IF "access" \notin SeqRange(found)
            THEN <<"Do you need access control? (e.g., only owner can mint, admin roles)">>
            ELSE <<>>)
        \o (IF "security" \notin SeqRange(found) /\ complexity # "simple"
            THEN <<"What security features do you need? (e.g., pausable, reentrancy protection)">>
            ELSE <<>>)

\* "Generate clarifying questions"
ClarifyingQuestions(detected_types, found, complexity) ==
    LET recommended == IF detected_types # <<>> THEN detected_types[1] ELSE "None"
    IN  (IF detected_types = <<>>
         THEN <<"What type of smart contract do you want to create? (e.g., ERC-20 token, NFT, DAO)">>
         ELSE <<>>)
        \o (IF "name" \notin SeqRange(found) /\ recommended # "None"
            THEN <<"What would you like to name your contract/token?">> ELSE <<>>)
        \o (IF recommended = "erc20" /\ "symbol" \notin SeqRange(found)
            THEN <<"What symbol should your token have? (e.g., BTC, ETH)">> ELSE <<>>)
        \o (IF recommended = "erc20" /\ "supply" \notin SeqRange(found)
            THEN <<"What should be the total supply of your token?">> ELSE <<>>)
        \o (IF "access" \notin SeqRange(found)
            THEN <<"Do you need access control? (e.g., only owner can mint, admin roles)">>
            ELSE <<>>)
        \o (IF "security" \notin SeqRange(found) /\ complexity # "simple"
            THEN <<"What security features do you need? (e.g., pausable, reentrancy protection)">>
            ELSE <<>>)

\* a feasibility test that takes a score of 20 for too low as well
InfeasibleAtTwenty(missing_info, clarity_score) ==
    Len(missing_info) > 3 \/ clarity_score <= 20

\* a feasibility test that fails on any missing entry
InfeasibleOnMissing(missing_info, clarity_score) ==
    Len(missing_info) > 0 \/ clarity_score < 20

\* "Final feasibility check": the test
Infeasible(missing_info, clarity_score) ==
    Len(missing_info) > 3 \/ clarity_score < 20

\* the returned data for a description
ValidationData(text) ==
    LET description == Lower(StripSpace(text))
        detected_types == MatchedKeys(contract_indicators, description)
        found_requirements == MatchedKeys(requirement_keywords, description)
        word_count == WordCount(description)
        clarity_score == ClarityScore(detected_types, found_requirements, word_count)
        missing_info == IF detected_types = <<>> THEN <<"contract_type">> ELSE <<>>
        complexity == EstimatedComplexity(description, found_requirements)
        questions == ClarifyingQuestions(detected_types, found_requirements, complexity)
        infeasible == Infeasible(missing_info, clarity_score)
    IN  [is_feasible |-> ~infeasible,
         clarity_score |-> clarity_score,
         missing_info |-> missing_info,
         suggestions |->
             (IF detected_types = <<>>
              THEN <<"Please specify what type of smart contract you want (e.g., token, NFT, DAO, DEX)">>
              ELSE <<>>)
             \o (IF word_count < 5
                 THEN <<"Please provide more details about your requirements">> ELSE <<>>)
             \o (IF infeasible
                 THEN <<"Please provide more specific details about your requirements">>
                 ELSE <<>>),
         estimated_complexity |-> complexity,
         recommended_contract_type |->
             IF detected_types # <<>> THEN detected_types[1] ELSE "None",
         clarifying_questions |-> questions,
         detected_contract_types |-> detected_types,
         found_requirements |-> found_requirements,
         word_count |-> word_count,
         needs_clarification |-> Len(questions) > 0]

ValidateUserInput ==
    /\ op = "validate_user_input" /\ pc = "start"
    /\ user_description.type = "str"
    /\ result' = [status |-> "success", data |-> ValidationData(user_description.value)]
    /\ pc' = "done"
    /\ UNCHANGED <<op, schedVars, argVars, lines, i, explanations, current_section, gasVars, errVars>>

\* user_description.strip() raises AttributeError on an argument that is no
\* string
ValidateUserInputFails ==
    /\ op = "validate_user_input" /\ pc = "start"
    /\ user_description.type # "str"
    /\ result' = [status |-> "error",
                  error_message |-> "Input validation failed: '" \o user_description.type
                      \o "' object has no attribute 'strip'"]
    /\ pc' = "done"
    /\ UNCHANGED <<op, schedVars, argVars, lines, i, explanations, current_section, gasVars, errVars>>

\* n copies of s
RECURSIVE Repeat(_, _)
Repeat(s, n) ==
    IF n = 0 THEN ""
    ELSE IF n = 1 THEN s
    ELSE Repeat(s, n \div 2) \o Repeat(s, n - n \div 2)

\* parts of a request: the scenario text, requests that name a type, ones
\* that match one or all requirement groups, fillers, and a text of 99 words
Phrases ==
    {"simple token", "Create an NFT", " ", "called Gold",
     "a coin called Gold with symbol GLD and total supply 100, "
         \o "the owner can use each feature and it is secure",
     "Advanced DAO with governance and upgrade",
     "please", "I want", Repeat("a ", 98) \o "b"}

\* Bound on the number of phrases of a request.
MaxPhrases == 2

\* ' '.join(q)
RECURSIVE JoinPhrases(_)
JoinPhrases(q) ==
    IF Len(q) = 1 THEN q[1] ELSE q[1] \o " " \o JoinPhrases(Tail(q))

Descriptions == {JoinPhrases(q) : q \in SeqsUpTo(Phrases, MaxPhrases)}

InitValidate ==
    /\ op = "validate_user_input" /\ pc = "start"
    /\ user_description \in {Text(t) : t \in Descriptions \cup {""}}
                            \cup {[type |-> "NoneType"]}
    /\ contract_type = Text("") /\ NoOther
    /\ lines = <<"">> /\ i = 0 /\ explanations = <<>> /\ current_section = "None"
    /\ result = NoResult
    /\ bytecode = "" /\ abi = <<>> /\ function_estimates = <<>>
    /\ baseline = NoResult /\ added_to = "None"
    /\ errors_json = NoErrors /\ errors = <<>> /\ parsed_errors = <<>>

NextValidate == ValidateUserInput \/ ValidateUserInputFails

SpecValidate == InitValidate /\ [][NextValidate]_vars

(***************************************************************************)
(* suggest_improvements                                                    *)
(***************************************************************************)

\* "Check for loop optimizations": the findings of the lines from k on
RECURSIVE LoopFindings(_, _)
LoopFindings(ls, k) ==
    IF k > Len(ls) THEN <<>>
    ELSE (IF Contains(ls[k], "for (") /\ Contains(ls[k], "i++")
          THEN <<[type |-> "gas_optimization", category |-> "loops", line |-> k,
                  suggestion |-> "Use ++i instead of i++ in loops to save gas",
                  impact |-> "low", estimated_savings |-> "5 gas per iteration"]>>
          ELSE <<>>)
         \o (IF Contains(ls[k], "for (") /\ Contains(ls[k], ".length")
             THEN <<[type |-> "gas_optimization", category |-> "loops", line |-> k,
                     suggestion |->
                         "Cache array length before loop to avoid repeated SLOAD operations",
                     impact |-> "medium", estimated_savings |-> "100+ gas per iteration"]>>
             ELSE <<>>)
         \o LoopFindings(ls, k + 1)

\* "Gas optimization suggestions"
GasOptimizations(ls) ==
    (IF InCode(ls, "uint256") /\ ~InCode(ls, "uint8")
     THEN <<[type |-> "gas_optimization", category |-> "data_types",
             suggestion |-> "Consider using smaller uint types (uint8, uint16, uint32) for "
                 \o "variables that don't need the full range of uint256",
             impact |-> "medium", estimated_savings |-> "2000-5000 gas per variable"]>>
     ELSE <<>>)
    \o (IF CountCode(ls, "mapping(") > 3
        THEN <<[type |-> "gas_optimization", category |-> "storage",
                suggestion |-> "Multiple mappings detected. Consider using structs to pack "
                    \o "related data together",
                impact |-> "high", estimated_savings |-> "20000+ gas per transaction"]>>
        ELSE <<>>)
    \o (IF InCode(ls, "string") /\ ~InCode(ls, "bytes32")
        THEN <<[type |-> "gas_optimization", category |-> "data_types",
                suggestion |-> "For fixed-length strings, consider using bytes32 instead of "
                    \o "string to save gas",
                impact |-> "medium", estimated_savings |-> "1000-3000 gas per operation"]>>
        ELSE <<>>)
    \o LoopFindings(ls, 1)

\* len([line for line in lines if ...]) for the two list comprehensions
PublicFunctionLines(ls) ==
    Cardinality({k \in 1..Len(ls) : Contains(ls[k], "function ") /\ Contains(ls[k], "public")})

EventLines(ls) == Cardinality({k \in 1..Len(ls) : Contains(ls[k], "event ")})

\* "Security improvement suggestions"
SecurityImprovements(ls) ==
    (IF ~InCode(ls, "require(") /\ ~InCode(ls, "assert(")
     THEN <<[type |-> "security", category |-> "input_validation",
             suggestion |->
                 "Add require() statements for input validation to prevent invalid states",
             severity |-> "high"]>>
     ELSE <<>>)
    \o (IF ~InCode(ls, "onlyOwner") /\ ~InCode(ls, "AccessControl")
           /\ \E func \in {"mint", "burn", "pause", "withdraw"} : InCode(ls, func)
        THEN <<[type |-> "security", category |-> "access_control",
                suggestion |->
                    "Add access control to sensitive functions like mint, burn, pause, withdraw",
                severity |-> "critical"]>>
        ELSE <<>>)
    \o (IF ~InCode(ls, "ReentrancyGuard") /\ InCode(ls, ".call(")
        THEN <<[type |-> "security", category |-> "reentrancy",
                suggestion |-> "Add ReentrancyGuard to functions that make external calls",
                severity |-> "high"]>>
        ELSE <<>>)
    \o (IF PublicFunctionLines(ls) > EventLines(ls)
        THEN <<[type |-> "security", category |-> "transparency",
                suggestion |-> "Add events to important state-changing functions for better "
                    \o "transparency and monitoring",
                severity |-> "medium"]>>
        ELSE <<>>)

\* a loop that looks at the length of the last function as well, once the
\* lines are through
RECURSIVE LongFunctionsWithLast(_, _, _, _)
LongFunctionsWithLast(ls, k, current_function, function_length) ==
    IF k > Len(ls)
    THEN (IF current_function # "None" /\ current_function # "" /\ function_length > 50
          THEN <<current_function>> ELSE <<>>)
    ELSE IF Contains(ls[k], "function ")
    THEN (IF current_function # "None" /\ current_function # "" /\ function_length > 50
          THEN <<current_function>> ELSE <<>>)
         \o LongFunctionsWithLast(ls, k + 1, StripSpace(ls[k]), 0)
    ELSE IF current_function # "None" /\ current_function # ""
    THEN LongFunctionsWithLast(ls, k + 1, current_function, function_length + 1)
    ELSE LongFunctionsWithLast(ls, k + 1, current_function, function_length)

\* the loop that collects long_functions, from line k on; current_function is
\* "None" before the first function
RECURSIVE LongFunctions(_, _, _, _)
LongFunctions(ls, k, current_function, function_length) ==
    IF k > Len(ls) THEN <<>>
    ELSE IF Contains(ls[k], "function ")
    THEN (IF current_function # "None" /\ current_function # "" /\ function_length > 50
          THEN <<current_function>> ELSE <<>>)
         \o LongFunctions(ls, k + 1, StripSpace(ls[k]), 0)
    ELSE IF current_function # "None" /\ current_function # ""
    THEN LongFunctions(ls, k + 1, current_function, function_length + 1)
    ELSE LongFunctions(ls, k + 1, current_function, function_length)

\* "Code quality suggestions"
CodeQuality(ls) ==
    LET long_functions == LongFunctions(ls, 1, "None", 0)
    IN  (IF CountCode(ls, "// TODO") > 0
         THEN <<[type |-> "code_quality", category |-> "completeness",
                 suggestion |-> "Remove TODO comments and implement missing functionality",
                 priority |-> "high"]>>
         ELSE <<>>)
        \o (IF long_functions # <<>>
            THEN <<[type |-> "code_quality", category |-> "function_length",
                    suggestion |-> "Consider breaking down long functions: "
                        \o JoinNames(SubSeq(long_functions, 1, Min(3, Len(long_functions)))),
                    priority |-> "medium"]>>
            ELSE <<>>)
        \o (IF CountCode(ls, "///") < CountCode(ls, "function ")
            THEN <<[type |-> "code_quality", category |-> "documentation",
                    suggestion |-> "Add NatSpec documentation (///) to functions for better "
                        \o "code documentation",
                    priority |-> "medium"]>>
            ELSE <<>>)

\* len(contract_code) for contract_code = '\n'.join(ls)
CodeLength(ls) == SeqSum([k \in 1..Len(ls) |-> Len(ls[k])]) + Len(ls) - 1

\* p in contract_code.lower(), for a pattern p without line break
InLowerCode(ls, p) == \E k \in 1..Len(ls) : Contains(Lower(ls[k]), p)

\* "Advanced pattern suggestions"
AdvancedPatterns(ls) ==
    (IF ~InLowerCode(ls, "factory") /\ CountCode(ls, "contract ") > 1
     THEN <<[type |-> "architecture", category |-> "design_pattern",
             suggestion |->
                 "Consider using Factory pattern for deploying multiple similar contracts",
             benefit |-> "Reduced deployment costs and better code organization"]>>
     ELSE <<>>)
    \o (IF ~InLowerCode(ls, "proxy") /\ CodeLength(ls) > 10000
        THEN <<[type |-> "architecture", category |-> "upgradeability",
                suggestion |->
                    "Consider implementing proxy pattern for contract upgradeability",
                benefit |-> "Allow future upgrades while preserving state and address"]>>
        ELSE <<>>)

\* suggestion.get("severity", suggestion.get("priority", suggestion.get("impact", "medium")))
SeverityOf(suggestion) ==
    IF "severity" \in DOMAIN suggestion THEN suggestion.severity
    ELSE IF "priority" \in DOMAIN suggestion THEN suggestion.priority
    ELSE IF "impact" \in DOMAIN suggestion THEN suggestion.impact
    ELSE "medium"

\* priority_scores.get(severity, 50)
PriorityScore(severity) ==
    IF severity = "critical" THEN 100
    ELSE IF severity = "high" THEN 80
    ELSE IF severity = "medium" THEN 60
    ELSE IF severity = "low" THEN 40
    ELSE 50

\* max(0, 100 - (total_score // max(suggestion_count, 1)))
ImprovementScore(all_suggestions) ==
    LET total_score ==
            SeqSum([k \in 1..Len(all_suggestions) |->
                        PriorityScore(SeverityOf(all_suggestions[k]))])
    IN  Max(0, 100 - (total_score \div Max(Len(all_suggestions), 1)))

\* len([s for s in all_suggestions
\*      if s.get("severity") == label or s.get("priority") == label])
BreakdownCount(all_suggestions, label) ==
    Cardinality({k \in 1..Len(all_suggestions) :
        LET sg == all_suggestions[k]
        IN  IF "severity" \in DOMAIN sg /\ sg.severity = label THEN TRUE
            ELSE IF "priority" \in DOMAIN sg THEN sg.priority = label
            ELSE FALSE})

\* the returned data for a source
SuggestData(ls) ==
    LET gas_optimizations == GasOptimizations(ls)
        security_improvements == SecurityImprovements(ls)
        code_quality == CodeQuality(ls)
        advanced_patterns == AdvancedPatterns(ls)
        all_suggestions == gas_optimizations \o security_improvements
                           \o code_quality \o advanced_patterns
    IN  [gas_optimizations |-> gas_optimizations,
         security_improvements |-> security_improvements,
         code_quality |-> code_quality,
         advanced_patterns |-> advanced_patterns,
         summary |->
             [total_suggestions |-> Len(all_suggestions),
              gas_optimizations |-> Len(gas_optimizations),
              security_issues |-> Len(security_improvements),
              code_quality_issues |-> Len(code_quality),
              improvement_score |-> ImprovementScore(all_suggestions),
              priority_breakdown |->
                  [critical |-> BreakdownCount(all_suggestions, "critical"),
                   high |-> BreakdownCount(all_suggestions, "high"),
                   medium |-> BreakdownCount(all_suggestions, "medium"),
                   low |-> BreakdownCount(all_suggestions, "low")]]]

SuggestImprovements ==
    /\ op = "suggest_improvements" /\ pc = "start"
    /\ result' = [status |-> "success", data |-> SuggestData(lines)]
    /\ pc' = "done"
    /\ UNCHANGED <<op, schedVars, argVars, lines, i, explanations, current_section, gasVars, errVars>>

\* source lines that fire and silence the rules one by one
SuggestLines ==
    {"contract A { uint256 total; string note; }",
     "contract B { uint8 small; string name; bytes32 id; }",
     "  for (uint i = 0; i < list.length; i++) {",
     "  function mint(address to) public { require(ok); }",
     "  function pay() public onlyOwner { to.call(x); } // TODO ReentrancyGuard",
     "  event Sent(address to);",
     "  /// @notice made by the Factory",
     "  mapping(a => b) m; mapping(a => b) n; mapping(a => b) o; mapping(a => b) p;",
     "  assert(ok); (bool ok, ) = to.call(data);"}

\* Bound on the number of lines of a source handed to suggest_improvements.
MaxSuggestLines == 2

\* a function of 51 lines, closed by the next function
LongFunctionSource ==
    <<"  function first() public {">> \o [k \in 1..51 |-> "    total += 1;"]
        \o <<"  function second() public {}">>

\* a source of more than 10000 characters
LargeSource == <<"contract Big {", "  // " \o Repeat("0123456789", 1000), "}">>

\* a function of 51 lines that no function follows
OnlyLongSource == SubSeq(LongFunctionSource, 1, 52)

\* a function of 50 lines, closed by the next function
FiftyLineSource == SubSeq(LongFunctionSource, 1, 51) \o <<"  function second() public {}">>

InitSuggest ==
    /\ op = "suggest_improvements" /\ pc = "start"
    /\ lines \in SeqsUpTo(SuggestLines, MaxSuggestLines)
                 \cup {<<"">>, LongFunctionSource, LargeSource, OnlyLongSource,
                       FiftyLineSource}
    /\ i = 0 /\ explanations = <<>> /\ current_section = "None"
    /\ result = NoResult
    /\ bytecode = "" /\ abi = <<>> /\ function_estimates = <<>>
    /\ baseline = NoResult /\ added_to = "None"
    /\ errors_json = NoErrors /\ errors = <<>> /\ parsed_errors = <<>>
    /\ NoArgs /\ NoOther

NextSuggest == SuggestImprovements

SpecSuggest == InitSuggest /\ [][NextSuggest]_vars

(***************************************************************************)
(* select_contract_template (src/agent/agent.py)                           *)
(***************************************************************************)

\* the template texts, each cut to its contract declaration line
erc20_template ==
    "contract CustomERC20Token is ERC20, ERC20Burnable, Ownable, ReentrancyGuard {"

erc721_template ==
    "contract CustomNFT is ERC721, ERC721URIStorage, Ownable, ReentrancyGuard {"

multisig_template == "contract MultiSigWallet is ReentrancyGuard {"

templates ==
    [erc20 |-> erc20_template, erc721 |-> erc721_template, multisig |-> multisig_template]

\* a supported name: the template and the name as it was handed in
SelectContractTemplate ==
    /\ op = "select_contract_template" /\ pc = "start"
    /\ contract_type.type = "str"
    /\ Lower(contract_type.value) \in DOMAIN templates
    /\ result' = [status |-> "success",
                  data |-> [contract_type |-> contract_type.value,
                            template_code |-> templates[Lower(contract_type.value)],
                            required_dependencies |-> <<"@openzeppelin/contracts">>]]
    /\ pc' = "done"
    /\ UNCHANGED <<op, schedVars, argVars, lines, i, explanations, current_section, gasVars, errVars>>

\* "if contract_type.lower() not in templates"
SelectContractTemplateUnsupported ==
    /\ op = "select_contract_template" /\ pc = "start"
    /\ contract_type.type = "str"
    /\ Lower(contract_type.value) \notin DOMAIN templates
    /\ result' = [status |-> "error",
                  error_message |-> "Unsupported type: " \o contract_type.value]
    /\ pc' = "done"
    /\ UNCHANGED <<op, schedVars, argVars, lines, i, explanations, current_section, gasVars, errVars>>

\* contract_type.lower() raises AttributeError on an argument that is no
\* string; the function has no try block, so the exception reaches the caller
SelectContractTemplateRaises ==
    /\ op = "select_contract_template" /\ pc = "start"
    /\ contract_type.type # "str"
    /\ result' = [status |-> "raised",
                  exception |-> "AttributeError: '" \o contract_type.type
                      \o "' object has no attribute 'lower'"]
    /\ pc' = "done"
    /\ UNCHANGED <<op, schedVars, argVars, lines, i, explanations, current_section, gasVars, errVars>>

ContractTypeNames == {"erc20", "ERC20", "erc721", "MultiSig", "dao", "dex", "staking", ""}

InitTemplate ==
    /\ op = "select_contract_template" /\ pc = "start"
    /\ contract_type \in {Text(t) : t \in ContractTypeNames}
                         \cup {[type |-> "NoneType"], [type |-> "int"]}
    /\ user_description = Text("") /\ NoOther
    /\ lines = <<"">> /\ i = 0 /\ explanations = <<>> /\ current_section = "None"
    /\ result = NoResult
    /\ bytecode = "" /\ abi = <<>> /\ function_estimates = <<>>
    /\ baseline = NoResult /\ added_to = "None"
    /\ errors_json = NoErrors /\ errors = <<>> /\ parsed_errors = <<>>

NextTemplate ==
    SelectContractTemplate \/ SelectContractTemplateUnsupported
    \/ SelectContractTemplateRaises

\* the operations that take an argument a caller can mistype or leave
\* unsupported: select_contract_template, handle_compilation_errors,
\* validate_user_input and analyze_gas_usage
InitOperations == InitTemplate \/ InitErrors \/ InitValidate \/ InitGas

NextOperations == NextTemplate \/ NextErrors \/ NextValidate \/ NextGas

SpecOperations == InitOperations /\ [][NextOperations]_vars

(***************************************************************************)
(* generate_contract_documentation                                         *)
(***************************************************************************)

\* the default of the parameter contract_name; the calls pass no name
contract_name == "CustomContract"

\* a function test that leaves out the lines that hold 'public' as well
IsDocumentedFunctionNotPublic(line) ==
    /\ StartsWith(Strip(line), "function ")
    /\ ~Contains(line, "internal") /\ ~Contains(line, "private")
    /\ ~Contains(line, "public")

\* the test of the function branch: a stripped line that starts with
\* 'function ' and a line that holds neither 'internal' nor 'private'
IsDocumentedFunction(line) ==
    /\ StartsWith(Strip(line), "function ")
    /\ ~Contains(line, "internal") /\ ~Contains(line, "private")

\* the line takes one of the three branches, each of which calls re.search
CallsSearch(line) ==
    IF IsDocumentedFunction(line) THEN TRUE
    ELSE IF StartsWith(Strip(line), "event ") THEN TRUE
    ELSE StartsWith(Strip(line), "modifier ")

\* doc_content when no function, event or modifier was collected
DocContent(name) ==
    "# " \o name \o " Documentation\n"
    \o "\n"
    \o "## Overview\n"
    \o name \o " is a Solidity smart contract generated by the Smart Contract Generator.\n"
    \o "\n"
    \o "## Contract Details\n"
    \o "- **Name**: " \o name \o "\n"
    \o "- **Solidity Version**: ^0.8.19\n"
    \o "- **License**: MIT\n"
    \o "\n"
    \o "## Architecture\n"
    \o "\n"
    \o "### Functions (0)\n"
    \o "\n"
    \o "## Security Considerations\n"
    \o "- [List security considerations]\n"
    \o "- [Mention access controls]\n"
    \o "- [Highlight potential risks]\n"
    \o "\n"
    \o "## Gas Optimization\n"
    \o "- [List gas optimization techniques used]\n"
    \o "- [Mention estimated gas costs]\n"
    \o "\n"
    \o "## Testing\n"
    \o "- [Describe testing approach]\n"
    \o "- [List test scenarios covered]\n"
    \o "\n"
    \o "## Deployment\n"
    \o "- [Provide deployment instructions]\n"
    \o "- [List required constructor parameters]\n"
    \o "\n"
    \o "## License\n"
    \o "This contract is released under the MIT License.\n"

\* natspec_contract
NatspecContract(name) ==
    "/// @title " \o name \o "\n"
    \o "/// @author Smart Contract Generator\n"
    \o "/// @notice This contract implements [describe main functionality]\n"
    \o "/// @dev This contract uses OpenZeppelin libraries for security\n"

\* the returned data when no function, event or modifier was collected
DocumentationData(name) ==
    [markdown_documentation |-> DocContent(name),
     natspec_contract |-> NatspecContract(name),
     natspec_functions |-> <<>>,
     contract_structure |->
         [name |-> name, functions |-> <<>>, events |-> <<>>, modifiers |-> <<>>,
          state_variables |-> <<>>],
     documentation_sections |->
         <<"Overview", "Contract Details", "Functions", "Events",
           "Security Considerations", "Gas Optimization", "Testing", "Deployment">>]

InDocLoop == op = "generate_contract_documentation" /\ pc = "parse" /\ i < Len(lines)

\* a line that takes no branch
DocSkipLine ==
    /\ InDocLoop /\ ~CallsSearch(lines[i + 1])
    /\ i' = i + 1
    /\ UNCHANGED <<op, schedVars, argVars, pc, lines, explanations, current_section, result,
                   gasVars, errVars>>

\* re.search on a name the module never imports: NameError, taken by the
\* except clause
DocSearchFails ==
    /\ InDocLoop /\ CallsSearch(lines[i + 1])
    /\ result' = [status |-> "error",
                  error_message |->
                      "Documentation generation failed: name 're' is not defined"]
    /\ pc' = "done"
    /\ UNCHANGED <<op, schedVars, argVars, lines, i, explanations, current_section,
                   gasVars, errVars>>

DocReturn ==
    /\ op = "generate_contract_documentation" /\ pc = "parse" /\ i = Len(lines)
    /\ result' = [status |-> "success", data |-> DocumentationData(contract_name)]
    /\ pc' = "done"
    /\ UNCHANGED <<op, schedVars, argVars, lines, i, explanations, current_section,
                   gasVars, errVars>>

\* source lines: functions of every visibility, one whose body holds
\* 'internal' inside a longer name, one named with 'private' in it, an event, a
\* modifier, and lines that take no branch
DocLines ==
    {"  function mint(address to) public {",
     "  function _burn() internal {",
     "function sweep() private",
     "  function pay() public { internalCall(); }",
     "  function privateSale() external payable {",
     "  event Sent(address to);",
     "  modifier onlyOwner() {",
     "contract A {",
     "  uint256 total; // function of time"}

\* Bound on the number of lines of a source handed to
\* generate_contract_documentation.
MaxDocLines == 2

InitDocumentation ==
    /\ op = "generate_contract_documentation" /\ pc = "parse"
    /\ lines \in SeqsUpTo(DocLines, MaxDocLines) \cup {<<"">>}
    /\ i = 0 /\ explanations = <<>> /\ current_section = "None" /\ result = NoResult
    /\ bytecode = "" /\ abi = <<>> /\ function_estimates = <<>>
    /\ baseline = NoResult /\ added_to = "None"
    /\ errors_json = NoErrors /\ errors = <<>> /\ parsed_errors = <<>>
    /\ NoArgs /\ NoOther

NextDocumentation == DocSkipLine \/ DocSearchFails \/ DocReturn

SpecDocumentation == InitDocumentation /\ [][NextDocumentation]_vars

(***************************************************************************)
(* Two callers: the calls run to their end one after the other             *)
(***************************************************************************)

\* one round of the scan loop of explain_generated_code on line k + 1: the
\* explanations and the open section behind it
ScanRound(ls, k, expl, cur) ==
    LET st == Strip(ls[k + 1])
        branch == Branch(st)
        grouped(kind, title, imp) ==
            IF cur # kind
            THEN <<Append(ClosePrevious(expl, cur, k),
                          [section |-> title, line_start |-> k + 1,
                           code |-> st, importance |-> imp]), kind>>
            ELSE <<AppendLastCode(expl, st), cur>>
        block(title, imp) ==
            [section |-> title, line_start |-> k + 1, line_end |-> BlockEnd(ls, k) + 1,
             code |-> JoinLines(ls, k + 1, BlockEnd(ls, k) + 1), importance |-> imp]
    IN  CASE branch = "pragma" ->
                <<Append(expl, [section |-> "Pragma Declaration", line_start |-> k + 1,
                                line_end |-> k + 1, code |-> st,
                                importance |-> "critical"]), cur>>
          [] branch = "import" -> grouped("imports", "Import Statements", "high")
          [] branch = "contract" ->
                <<Append(ClosePrevious(expl, cur, k),
                         [section |-> "Contract Declaration", line_start |-> k + 1,
                          code |-> st, importance |-> "critical"]), "contract_declaration">>
          [] branch = "type" /\ IsConstantLine(st) ->
                grouped("constants", "Constants & Immutable Variables", "medium")
          [] branch = "type" /\ ~IsConstantLine(st) ->
                grouped("state_variables", "State Variables", "high")
          [] branch = "event" -> grouped("events", "Events", "medium")
          [] branch = "modifier" ->
                <<Append(ClosePrevious(expl, cur, k),
                         block("Modifier: " \o BeforeParen(SecondWord(st)), "high")), "None">>
          [] branch = "constructor" ->
                <<Append(ClosePrevious(expl, cur, k), block("Constructor", "critical")),
                  "None">>
          [] branch = "function" ->
                <<Append(ClosePrevious(expl, cur, k),
                         block("Function: " \o BeforeParen(SecondWord(st)), "high")
                         @@ [visibility |-> Visibility(st),
                             state_mutability |-> StateMutability(st)]), "None">>
          [] OTHER -> <<expl, cur>>

\* explain_generated_code from line k + 1 to the return
RECURSIVE ExplainFrom(_, _, _, _)
ExplainFrom(ls, k, expl, cur) ==
    IF k < Len(ls)
    THEN LET round == ScanRound(ls, k, expl, cur)
         IN  ExplainFrom(ls, k + 1, round[1], round[2])
    ELSE LET final == IF cur # "None" /\ expl # <<>>
                      THEN SetLastLineEnd(expl, Len(ls)) ELSE expl
         IN  [status |-> "success",
              data |-> [explanations |-> final, summary |-> ExplainSummary(final),
                        total_lines |-> Len(ls),
                        complexity_score |-> Min(100, Len(final) * 8)]]

\* analyze_gas_usage from ABI entry k to the return
RECURSIVE GasFrom(_, _, _, _, _)
GasFrom(code, entries, ls, k, est) ==
    IF k > Len(entries) THEN [status |-> "success", data |-> GasData(code, est, ls)]
    ELSE IF IsMalformed(entries[k])
    THEN [status |-> "error",
          error_message |-> "Gas analysis failed: '" \o MissingKey(entries[k]) \o "'"]
    ELSE IF entries[k].type = "function"
    THEN GasFrom(code, entries, ls, k + 1, PutEstimate(est, EstimateOf(entries[k], ls)))
    ELSE GasFrom(code, entries, ls, k + 1, est)

\* handle_compilation_errors from its argument to the return: the results it
\* can give, one per order of error_types
ErrorsResults(arg) ==
    IF arg.type = "str" /\ ~JsonLoads(arg.value).ok
    THEN {[status |-> "error",
           error_message |->
               "Error parsing failed: Expecting value: line 1 column 1 (char 0)"]}
    ELSE LET list == IF arg.type = "list" THEN arg.value ELSE JsonLoads(arg.value).value
             bad == {k \in 1..Len(list) : list[k].type # "str"}
         IN  IF bad # {}
             THEN {[status |-> "error",
                    error_message |-> "Error parsing failed: expected string or "
                        \o "bytes-like object, got '"
                        \o list[CHOOSE k \in bad : \A n \in bad : k <= n].type \o "'"]}
             ELSE LET parsed == [k \in 1..Len(list) |-> ErrorInfo(list[k].value)]
                  IN  {[status |-> "success",
                        data |-> [parsed_errors |-> parsed,
                                  total_errors |-> Len(parsed),
                                  error_types |-> order,
                                  severity_count |-> SeverityCount(parsed),
                                  general_suggestions |->
                                      GeneralSuggestions(SeqRange(ErrorTypes(parsed))),
                                  fixable_errors |->
                                      CountOfTypes(parsed,
                                                   AllErrorTypes \ {"compiler_error"})]] :
                       order \in Orders(SeqRange(ErrorTypes(parsed)))}

\* the results a call can give when it runs from its arguments to its return
\* with no other call in progress
AloneResults(call) ==
    CASE call.op = "explain_generated_code" -> {ExplainFrom(call.lines, 0, <<>>, "None")}
      [] call.op = "get_contract_metrics" ->
            {[status |-> "success", data |-> MetricsData(call.lines)]}
      [] call.op = "suggest_improvements" ->
            {[status |-> "success", data |-> SuggestData(call.lines)]}
      [] call.op = "analyze_gas_usage" ->
            {GasFrom(call.bytecode, call.abi, call.lines, 1, <<>>)}
      [] call.op = "handle_compilation_errors" -> ErrorsResults(call.errors_json)
      [] call.op = "validate_user_input" ->
            IF call.user_description.type = "str"
            THEN {[status |-> "success",
                   data |-> ValidationData(call.user_description.value)]}
            ELSE {[status |-> "error",
                   error_message |-> "Input validation failed: '"
                       \o call.user_description.type
                       \o "' object has no attribute 'strip'"]}

(***************************************************************************)
(* Two callers: the calls interleave                                       *)
(***************************************************************************)

\* the locals of the running call
Context ==
    [op |-> op, pc |-> pc, lines |-> lines, i |-> i, explanations |-> explanations,
     current_section |-> current_section, result |-> result,
     bytecode |-> bytecode, abi |-> abi, function_estimates |-> function_estimates,
     user_description |-> user_description, errors_json |-> errors_json,
     errors |-> errors, parsed_errors |-> parsed_errors, preempted |-> preempted]

\* the running call is between two of its steps
MidRun == pc # "done" /\ (i > 0 \/ pc = "loop")

\* the running call is suspended where it stands and the other call goes on
\* where it stood; next_i is the loop index the other call finds
SwitchWith(next_i) ==
    /\ other # Idle
    /\ op' = other.op /\ pc' = other.pc /\ lines' = other.lines /\ i' = next_i
    /\ explanations' = other.explanations /\ current_section' = other.current_section
    /\ result' = other.result
    /\ bytecode' = other.bytecode /\ abi' = other.abi
    /\ function_estimates' = other.function_estimates
    /\ user_description' = other.user_description
    /\ errors_json' = other.errors_json /\ errors' = other.errors
    /\ parsed_errors' = other.parsed_errors
    /\ preempted' = other.preempted
    /\ other' = [Context EXCEPT !.preempted = preempted \/ MidRun]
    /\ UNCHANGED <<contract_type, baseline, added_to>>

\* a loop index kept in one place for all calls
SwitchSharedIndex == SwitchWith(i)

\* every local is the call's own: each call finds its locals as it left them
Switch == SwitchWith(other.i)

\* a call at its entry
Call(name, entry, ls, code, entries, description, arg) ==
    [op |-> name, pc |-> entry, lines |-> ls, i |-> 0, explanations |-> <<>>,
     current_section |-> "None", result |-> NoResult,
     bytecode |-> code, abi |-> entries, function_estimates |-> <<>>,
     user_description |-> description, errors_json |-> arg,
     errors |-> <<>>, parsed_errors |-> <<>>, preempted |-> FALSE]

BlockSource ==
    <<"pragma solidity ^0.8.19;", "  uint256 public total;", "  function bar() public",
      "  { if (a) { b = 1; }", "  }">>

EventSource == <<"import './Ownable.sol';", "  event Sent(address to);", "// note">>

OwnedSource ==
    <<"contract A {", "  uint256 constant CAP = 1;", "  modifier onlyOwner() { _; }",
      "  constructor() { owner = msg.sender; }">>

MintAbi ==
    <<[type |-> "function", name |-> "totalMinted", stateMutability |-> "view"],
      [type |-> "event", name |-> "Transfer"],
      [type |-> "function", name |-> "safeMint", stateMutability |-> "nonpayable"]>>

BrokenAbi ==
    <<[type |-> "function", name |-> "approve"], [name |-> "broken"],
      [type |-> "function", name |-> "withdraw", stateMutability |-> "payable"]>>

TwoMessages ==
    [type |-> "list",
     value |-> <<[type |-> "str",
                  value |-> "contract.sol:12:5: ParserError: Expected ';' but got '}'"],
                 [type |-> "str",
                  value |-> "a.sol:7:9: Warning: Unused local variable, unused import"]>>]

BadMessages ==
    [type |-> "list",
     value |-> <<[type |-> "str", value |-> "CompilerError: Stack too deep"],
                 [type |-> "dict"]>>]

\* the calls of the two callers
Calls ==
    {Call("explain_generated_code", "scan", ls, "", <<>>, Text(""), NoErrors) :
         ls \in {BlockSource, EventSource, OwnedSource}}
    \cup {Call("get_contract_metrics", "start", BlockSource, "", <<>>, Text(""), NoErrors),
          Call("suggest_improvements", "start", BlockSource, "", <<>>, Text(""), NoErrors),
          Call("analyze_gas_usage", "items", SampleSource, "6080", MintAbi, Text(""),
               NoErrors),
          Call("analyze_gas_usage", "items", <<"">>, "", BrokenAbi, Text(""), NoErrors)}
    \cup {Call("validate_user_input", "start", <<"">>, "", <<>>, description, NoErrors) :
              description \in {Text("simple token"), [type |-> "NoneType"]}}
    \cup {Call("handle_compilation_errors", "load", <<"">>, "", <<>>, Text(""), arg) :
              arg \in {TwoMessages, BadMessages, Text("not json")}}

InitConcurrent ==
    \E first \in Calls, second \in Calls :
        /\ op = first.op /\ pc = first.pc /\ lines = first.lines /\ i = 0
        /\ explanations = <<>> /\ current_section = "None" /\ result = NoResult
        /\ bytecode = first.bytecode /\ abi = first.abi /\ function_estimates = <<>>
        /\ baseline = NoResult /\ added_to = "None"
        /\ user_description = first.user_description /\ contract_type = Text("")
        /\ errors_json = first.errors_json /\ errors = <<>> /\ parsed_errors = <<>>
        /\ preempted = FALSE
        /\ other = second

NextConcurrent ==
    NextExplain \/ GetContractMetrics \/ SuggestImprovements \/ NextValidate
    \/ NextGas \/ NextErrors \/ Switch

\* two calls of the analysis operations, interleaved step by step
SpecConcurrent == InitConcurrent /\ [][NextConcurrent]_vars

(***************************************************************************)
(* Properties of explain_generated_code and get_contract_metrics           *)
(***************************************************************************)

ExplainDone == op = "explain_generated_code" /\ pc = "done"

MetricsDone == op = "get_contract_metrics" /\ pc = "done"

HasEnd(e) == "line_end" \in DOMAIN e

\* line n lies inside the range of section e
Covers(e, n) == HasEnd(e) /\ e.line_start <= n /\ n <= e.line_end

\* C1: the returned sections cover every line 1..N, and every section has a
\* line_end with line_start <= line_end.
C1_CoverNoGaps ==
    ExplainDone =>
        LET secs == result.data.explanations
        IN  /\ \A n \in 1..Len(lines) : \E k \in 1..Len(secs) : Covers(secs[k], n)
            /\ \A k \in 1..Len(secs) :
                   HasEnd(secs[k]) /\ secs[k].line_start <= secs[k].line_end

\* C2: no line lies inside the range of two different returned sections.
C2_ExactlyOnce ==
    ExplainDone =>
        LET secs == result.data.explanations
        IN  \A n \in 1..Len(lines) : \A j, k \in 1..Len(secs) :
                (Covers(secs[j], n) /\ Covers(secs[k], n)) => j = k

\* the failing input of C2 named in the results: a state-variable line inside a
\* constructor body is covered by the constructor and by a State Variables section
C2_TypeLineInBody ==
    (ExplainDone /\ lines = <<"  constructor() {", "  uint256 public total;", "  }">>)
        => C2_ExactlyOnce

IsBlockSection(e) ==
    \/ StartsWith(e.section, "Function: ")
    \/ StartsWith(e.section, "Modifier: ")
    \/ e.section = "Constructor"

\* per line: '{' minus '}'
BraceDelta(ls) == [k \in 1..Len(ls) |-> Count(ls[k], "{") - Count(ls[k], "}")]

\* per line: whether it holds a '{'
HasOpen(ls) == [k \in 1..Len(ls) |-> Contains(ls[k], "{")]

\* lines s..e (1-based, inclusive) hold a '{' and their braces balance
ClosesAt(delta, open, s, e) ==
    /\ SeqSum([k \in 1..(e - s + 1) |-> delta[s + k - 1]]) = 0
    /\ \E k \in s..e : open[k]

\* C3: a modifier, constructor or function section that starts at line s ends at
\* the first line e >= s where the braces of lines s..e balance after a '{' was
\* seen.
C3_BlockClosesAtBalance ==
    ExplainDone =>
        LET secs == result.data.explanations
            delta == BraceDelta(lines)
            open == HasOpen(lines)
        IN  \A k \in 1..Len(secs) :
                LET e == secs[k]
                    s == e.line_start
                    closers == {c \in s..Len(lines) : ClosesAt(delta, open, s, c)}
                IN  (IsBlockSection(e) /\ closers # {}) =>
                        /\ HasEnd(e)
                        /\ e.line_end \in closers
                        /\ \A c \in closers : e.line_end <= c

\* C3 witness: a returned function whose signature line has no brace and whose
\* body has nested braces on an intermediate line, closed two lines below.
C3_Witness ==
    /\ ExplainDone
    /\ \E k \in 1..Len(explanations) :
           LET e == explanations[k]
           IN  /\ StartsWith(e.section, "Function: ")
               /\ ~Contains(lines[e.line_start], "{")
               /\ e.line_end = e.line_start + 2
               /\ Count(lines[e.line_start + 1], "{") >= 2
               /\ ClosesAt(BraceDelta(lines), HasOpen(lines), e.line_start, e.line_end)

ScenarioSource ==
    <<"pragma solidity ^0.8.19;", "contract Foo { function bar() public {} }">>

\* C4: the scenario source decomposes into exactly 3 sections (pragma, contract
\* declaration, function) and its counts are functions=1, modifiers=0, events=0.
C4_Scenario ==
    (pc = "done" /\ lines = ScenarioSource) =>
        IF op = "explain_generated_code"
        THEN LET secs == result.data.explanations
                 sum == result.data.summary
             IN  /\ Len(secs) = 3
                 /\ secs[1].section = "Pragma Declaration"
                 /\ secs[2].section = "Contract Declaration"
                 /\ StartsWith(secs[3].section, "Function:")
                 /\ sum.functions = 1 /\ sum.modifiers = 0 /\ sum.events = 0
        ELSE LET el == result.data.contract_elements
             IN  el.functions = 1 /\ el.modifiers = 0 /\ el.events = 0

\* C5: complexity_score, maintainability and security each lie in [0, 100].
C5_ScoresBounded ==
    MetricsDone =>
        /\ result.data.complexity_metrics.complexity_score \in 0..100
        /\ result.data.quality_scores.maintainability \in 0..100
        /\ result.data.quality_scores.security \in 0..100

(***************************************************************************)
(* Properties of analyze_gas_usage                                         *)
(***************************************************************************)

GasDone == op = "analyze_gas_usage" /\ pc = "done" /\ result.status = "success"

\* the estimate kept under a name in a returned envelope
GasOf(envelope, name) ==
    LET est == envelope.data.function_gas_estimates
    IN  est[CHOOSE k \in 1..Len(est) : est[k].name = name].estimated_gas

\* C7: one more require( in the body of a function the ABI names raises that
\* function's estimated_gas by exactly 500 and leaves every other estimate as
\* it was.
C7_RequireAdds500 ==
    (GasDone /\ baseline # NoResult) =>
        \A f \in FunctionNames(abi) :
            GasOf(result, f) = GasOf(baseline, f) + (IF f = added_to THEN 500 ELSE 0)

\* the rule list of C8, first match wins
C8_Rule(name, mutability) ==
    CASE mutability \in {"view", "pure"} -> 500
      [] mutability \notin {"view", "pure"} /\ Contains(Lower(name), "mint") -> 50000
      [] mutability \notin {"view", "pure"} /\ ~Contains(Lower(name), "mint")
         /\ Contains(Lower(name), "transfer") -> 21000
      [] mutability \notin {"view", "pure"} /\ ~Contains(Lower(name), "mint")
         /\ ~Contains(Lower(name), "transfer") /\ Contains(Lower(name), "approve") -> 45000
      [] OTHER -> 25000

IsFunctionEntry(item) == ~IsMalformed(item) /\ item.type = "function"

\* C8: without source, the estimate stored for an ABI function is the value of
\* the first matching rule (view/pure 500, mint 50000, transfer 21000, approve
\* 45000, else 25000), the words looked for in the lower-cased name: right
\* after the entry is processed, and in the returned estimates for the last
\* entry of each name.  An ABI of one view and one mint function yields 500
\* and 50000.
C8_BaseGasByRule ==
    (op = "analyze_gas_usage" /\ ~HasSource(lines)) =>
        /\ (pc = "items" /\ i > 0 /\ IsFunctionEntry(abi[i])) =>
               \E k \in 1..Len(function_estimates) :
                   /\ function_estimates[k].name = abi[i].name
                   /\ function_estimates[k].estimated_gas
                          = C8_Rule(abi[i].name, MutabilityOf(abi[i]))
        /\ GasDone =>
               \A k \in 1..Len(abi) :
                   (/\ IsFunctionEntry(abi[k])
                    /\ \A n \in (k + 1)..Len(abi) :
                           IsFunctionEntry(abi[n]) => abi[n].name # abi[k].name)
                       => GasOf(result, abi[k].name)
                              = C8_Rule(abi[k].name, MutabilityOf(abi[k]))
        /\ (GasDone /\ Len(abi) = 2
               /\ IsFunctionEntry(abi[1]) /\ MutabilityOf(abi[1]) = "view"
               /\ IsFunctionEntry(abi[2]) /\ MutabilityOf(abi[2]) = "nonpayable"
               /\ Contains(abi[2].name, "mint") /\ abi[1].name # abi[2].name)
               => /\ GasOf(result, abi[1].name) = 500
                  /\ GasOf(result, abi[2].name) = 50000

\* the rule list of C8 with the words looked for in the name as it is written
C8_RuleAsStated(name, mutability) ==
    IF mutability \in {"view", "pure"} THEN 500
    ELSE IF Contains(name, "mint") THEN 50000
    ELSE IF Contains(name, "transfer") THEN 21000
    ELSE IF Contains(name, "approve") THEN 45000
    ELSE 25000

\* C8 as stated: the estimate stored for an ABI function is the value of the
\* first rule that matches the name as it is written.
C8_BaseGasAsStated ==
    (op = "analyze_gas_usage" /\ ~HasSource(lines)
       /\ pc = "items" /\ i > 0 /\ IsFunctionEntry(abi[i])) =>
        \E k \in 1..Len(function_estimates) :
            /\ function_estimates[k].name = abi[i].name
            /\ function_estimates[k].estimated_gas
                   = C8_RuleAsStated(abi[i].name, MutabilityOf(abi[i]))

\* C8 witness: the returned estimates of a view function whose name holds
\* 'Mint' and of a mint function, without source: 500 and 50000.
C8_Witness ==
    /\ GasDone /\ ~HasSource(lines)
    /\ abi = <<[type |-> "function", name |-> "totalMinted", stateMutability |-> "view"],
               [type |-> "function", name |-> "safeMint", stateMutability |-> "nonpayable"]>>
    /\ GasOf(result, "totalMinted") = 500
    /\ GasOf(result, "safeMint") = 50000

\* the increments of the lines s..e of the source
Increments(s, e) ==
    SeqSum([k \in 1..(e - s + 1) |->
               1000 * Count(lines[s + k - 1], "emit ")
               + 10000 * Count(lines[s + k - 1], ".call(")
               + 500 * Count(lines[s + k - 1], "require(")
               + 5000 * Count(lines[s + k - 1], "mapping(")])

\* C26: the increments of an ABI function named f come from the lines between
\* the first source line that holds the substring 'function f' and the line
\* where the brace balance first returns to zero after a '{'; a function
\* declared earlier whose name has f as a prefix therefore lends its body to
\* f, and with no matching line no increment is added.
C26_BodyByFirstSubstring ==
    (GasDone /\ HasSource(lines)) =>
        LET est == result.data.function_gas_estimates
            delta == BraceDelta(lines)
            open == HasOpen(lines)
        IN  \A n \in 1..Len(est) :
                LET f == est[n].name
                    base == C8_Rule(f, est[n].state_mutability)
                    starts == {k \in 1..Len(lines) : Contains(lines[k], "function " \o f)}
                    s == CHOOSE k \in starts : \A m \in starts : k <= m
                    closers == {c \in s..Len(lines) : ClosesAt(delta, open, s, c)}
                    e == CHOOSE c \in closers : \A m \in closers : c <= m
                IN  /\ starts = {} => est[n].estimated_gas = base
                    /\ (starts # {} /\ closers # {})
                           => est[n].estimated_gas = base + Increments(s, e)

\* C26 witness: transferFrom is declared before transfer and holds an emit;
\* the body of transfer holds none, and transfer is estimated at 21000 + 1000.
C26_Witness ==
    /\ GasDone
    /\ lines = <<"function transferFrom(address a) public {", "  emit Sent(a);", "}",
                 "function transfer(address a) public {", "}">>
    /\ \E n \in 1..Len(result.data.function_gas_estimates) :
           /\ result.data.function_gas_estimates[n].name = "transfer"
           /\ result.data.function_gas_estimates[n].estimated_gas = 22000

\* the last ABI entry that names the function f
LastEntryNamed(f) ==
    LET places == {k \in 1..Len(abi) : abi[k].type = "function" /\ abi[k].name = f}
    IN  abi[CHOOSE k \in places : \A m \in places : m <= k]

\* C27: function_gas_estimates is keyed by name: total_functions is the number
\* of distinct names among the function entries of the ABI, an overloaded name
\* keeps the estimate of its last entry, and average_function_gas is the
\* floor of the sum of the kept estimates over that number, 0 with no function.
C27_KeyedByName ==
    GasDone =>
        LET d == result.data
            est == d.function_gas_estimates
            names == {abi[k].name : k \in {n \in 1..Len(abi) : abi[n].type = "function"}}
            sum == SeqSum([k \in 1..Len(est) |-> est[k].estimated_gas])
        IN  /\ d.total_functions = Cardinality(names)
            /\ {est[k].name : k \in 1..Len(est)} = names
            /\ Len(est) = Cardinality(names)
            /\ \A k \in 1..Len(est) :
                   LET last == LastEntryNamed(est[k].name)
                   IN  /\ est[k].state_mutability = MutabilityOf(last)
                       /\ est[k].estimated_gas =
                              C8_Rule(est[k].name, MutabilityOf(last))
                              + (IF HasSource(lines)
                                 THEN BodyGas(FuncLines(lines, est[k].name)) ELSE 0)
            /\ names = {} => d.average_function_gas = 0
            /\ names # {} =>
                   /\ d.average_function_gas * Cardinality(names) <= sum
                   /\ sum < (d.average_function_gas + 1) * Cardinality(names)

\* C27 witness: safeMint comes twice, nonpayable and then view, with transfer in
\* between: two estimates are kept, safeMint holds the view estimate of 500 and
\* the average is floor(21500 / 2).
C27_Witness ==
    /\ GasDone /\ lines = <<"uint256 total;">>
    /\ Len(abi) = 3 /\ abi[1].name = "safeMint" /\ abi[3].name = "safeMint"
    /\ result.data.total_functions = 2
    /\ GasOf(result, "safeMint") = 500
    /\ result.data.average_function_gas = 10750

HighGasNote == "High gas functions detected: "

\* the note names the function f
NamedIn(note, f) ==
    \E before \in {": ", ", "}, after \in {",", "."} : Contains(note, before \o f \o after)

\* C28: gas_category is low below 30000, medium from 30000 to 59999 and high
\* from 60000 on, and the 'High gas functions detected' note names exactly the
\* functions estimated strictly above 60000: a function at exactly 60000 is
\* banded high and not named.
C28_BandsAndNote ==
    GasDone =>
        LET est == result.data.function_gas_estimates
            opts == result.data.optimizations
            notes == {k \in 1..Len(opts) : StartsWith(opts[k], HighGasNote)}
        IN  /\ \A k \in 1..Len(est) :
                   est[k].gas_category =
                       CASE est[k].estimated_gas < 30000 -> "low"
                         [] est[k].estimated_gas >= 30000 /\ est[k].estimated_gas <= 59999
                              -> "medium"
                         [] est[k].estimated_gas >= 60000 -> "high"
            /\ (notes # {}) = (\E k \in 1..Len(est) : est[k].estimated_gas > 60000)
            /\ Cardinality(notes) <= 1
            /\ \A n \in notes : \A k \in 1..Len(est) :
                   NamedIn(opts[n], est[k].name) = (est[k].estimated_gas > 60000)

\* C28 witness: safeMint is estimated at exactly 60000 and banded high, and
\* no note is given.
C28_Witness ==
    /\ GasDone
    /\ \E k \in 1..Len(result.data.function_gas_estimates) :
           /\ result.data.function_gas_estimates[k].estimated_gas = 60000
           /\ result.data.function_gas_estimates[k].gas_category = "high"
    /\ \A k \in 1..Len(result.data.optimizations) :
           ~StartsWith(result.data.optimizations[k], HighGasNote)

(***************************************************************************)
(* Properties of handle_compilation_errors                                 *)
(***************************************************************************)

ErrorsDone == op = "handle_compilation_errors" /\ pc = "done" /\ result.status = "success"

\* the markers in the order of the tests, with the kind each one gives
Markers ==
    <<"ParserError", "TypeError", "DeclarationError", "CompilerError", "Warning">>

KindOfMarker ==
    <<"syntax_error", "type_error", "declaration_error", "compiler_error", "warning">>

\* C9: every message gets exactly one kind, the kind of the earliest marker,
\* in the order ParserError, TypeError, DeclarationError, CompilerError,
\* Warning, that the message contains, and unknown when it contains none; a
\* message with several markers gets the kind of the earliest one.
C9_KindByFirstMarker ==
    op = "handle_compilation_errors" =>
        \A k \in 1..Len(parsed_errors) :
            LET e == parsed_errors[k]
                found == {m \in 1..Len(Markers) : Contains(e.original_error, Markers[m])}
            IN  /\ e.original_error = errors[k].value
                /\ found = {} => e.error_type = "unknown"
                /\ found # {} =>
                       \E m \in found : /\ \A n \in found : m <= n
                                        /\ e.error_type = KindOfMarker[m]

\* C9 witness: a returned list with a message that holds 'Warning' before
\* 'ParserError' in the text and is a syntax_error, and a message without
\* marker that is unknown.
C9_Witness ==
    /\ ErrorsDone
    /\ \E k \in 1..Len(result.data.parsed_errors) :
         LET e == result.data.parsed_errors[k]
         IN  /\ Contains(e.original_error, "Warning: ParserError")
             /\ e.error_type = "syntax_error"
    /\ \E k \in 1..Len(result.data.parsed_errors) :
         result.data.parsed_errors[k].error_type = "unknown"

\* the text between positions a and b (exclusive) is a run of digits, not empty
IsDigits(s, a, b) == b > a + 1 /\ \A n \in (a + 1)..(b - 1) : Char(s, n) \in Digits

\* the pairs <<a, b>> of positions of a ':<digits>:' occurrence
Occurrences(s) ==
    {ab \in (1..Len(s)) \X (1..Len(s)) :
        /\ Char(s, ab[1]) = ":" /\ Char(s, ab[2]) = ":"
        /\ IsDigits(s, ab[1], ab[2])}

\* the value of a string of digits, by its positional weights
RECURSIVE Power10(_)
Power10(n) == IF n = 0 THEN 1 ELSE 10 * Power10(n - 1)

DecimalValue(s) ==
    SeqSum([n \in 1..Len(s) |->
        (CHOOSE d \in 0..9 : Char(DigitString, d + 1) = Char(s, n)) * Power10(Len(s) - n)])

\* C10: line_number is the integer of the first ':<digits>:' occurrence of
\* the message, or null when there is none, whatever the kind; a message with
\* 'ParserError' whose first occurrence is ':12:' is a syntax_error of line 12.
C10_LineNumberFirstOccurrence ==
    op = "handle_compilation_errors" =>
        \A k \in 1..Len(parsed_errors) :
            LET e == parsed_errors[k]
                s == e.original_error
                occ == Occurrences(s)
            IN  /\ occ = {} => e.line_number = NoLineNumber
                /\ occ # {} =>
                       \E ab \in occ :
                           /\ \A cd \in occ : ab[1] <= cd[1]
                           /\ e.line_number = DecimalValue(SubSeq(s, ab[1] + 1, ab[2] - 1))
                /\ (Contains(s, "ParserError") /\ occ # {}
                      /\ \E ab \in occ : /\ \A cd \in occ : ab[1] <= cd[1]
                                         /\ SubSeq(s, ab[1], ab[2]) = ":12:")
                       => (e.error_type = "syntax_error" /\ e.line_number = 12)

\* C10 witness: a returned diagnostic for a message with 'ParserError' and
\* ':12:5:' that is a syntax_error of line 12, next to one without occurrence
\* whose line_number is null.
C10_Witness ==
    /\ ErrorsDone
    /\ \E k \in 1..Len(result.data.parsed_errors) :
         LET e == result.data.parsed_errors[k]
         IN  /\ Contains(e.original_error, "ParserError")
             /\ Contains(e.original_error, ":12:5:")
             /\ e.error_type = "syntax_error" /\ e.line_number = 12
    /\ \E k \in 1..Len(result.data.parsed_errors) :
         LET e == result.data.parsed_errors[k]
         IN  e.line_number = NoLineNumber /\ e.error_type # "unknown"

\* the argument is a list of strings
IsMessageList == errors_json.type = "list" /\ \A k \in 1..Len(errors_json.value) :
                     errors_json.value[k].type = "str"

\* C11: no message is dropped: for a list of messages the call succeeds and
\* parsed_errors holds one entry per message, in input order, with
\* original_error the message and total_errors the length of the input; a
\* message of no kind is emitted as unknown with the generic suggestion.
C11_NeverDropsInput ==
    (op = "handle_compilation_errors" /\ pc = "done" /\ IsMessageList) =>
        /\ result.status = "success"
        /\ Len(result.data.parsed_errors) = Len(errors_json.value)
        /\ result.data.total_errors = Len(errors_json.value)
        /\ \A k \in 1..Len(errors_json.value) :
               LET e == result.data.parsed_errors[k]
                   m == errors_json.value[k].value
               IN  /\ e.original_error = m
                   /\ (\A n \in 1..Len(Markers) : ~Contains(m, Markers[n])) =>
                          /\ e.error_type = "unknown"
                          /\ e.suggestion = "Check the error message for details"

\* C11 witness: a returned list of two diagnostics whose first message has no
\* marker and is emitted as unknown, ahead of a classified one.
C11_Witness ==
    /\ ErrorsDone /\ IsMessageList
    /\ Len(result.data.parsed_errors) = 2
    /\ result.data.parsed_errors[1].original_error = "Internal error at 10:20"
    /\ result.data.parsed_errors[1].error_type = "unknown"
    /\ result.data.parsed_errors[2].error_type = "compiler_error"
    /\ result.data.total_errors = 2

\* the number of returned diagnostics of the given kinds
Diagnostics(kinds) ==
    Cardinality({k \in 1..Len(result.data.parsed_errors) :
                    result.data.parsed_errors[k].error_type \in kinds})

NoDuplicates(q) == \A a, b \in 1..Len(q) : q[a] = q[b] => a = b

\* the general suggestion of a kind of diagnostic
GeneralSuggestionOf ==
    [syntax_error |->
         "Review code syntax carefully - check for missing semicolons, brackets, and parentheses",
     type_error |-> "Verify all variable types and function signatures match their usage",
     declaration_error |->
         "Ensure all variables and functions are properly declared before use"]

\* C23: in the aggregate, critical counts syntax_error and compiler_error
\* diagnostics, high type_error and declaration_error, medium warnings;
\* fixable_errors counts every diagnostic except compiler_error (unknown ones
\* included); error_types has no duplicates; general_suggestions has no
\* duplicates and one entry for each of syntax_error, type_error,
\* declaration_error that is present.
C23_AggregateTallies ==
    ErrorsDone =>
        LET d == result.data
            present == {d.parsed_errors[k].error_type : k \in 1..Len(d.parsed_errors)}
        IN  /\ d.severity_count.critical = Diagnostics({"syntax_error", "compiler_error"})
            /\ d.severity_count.high = Diagnostics({"type_error", "declaration_error"})
            /\ d.severity_count.medium = Diagnostics({"warning"})
            /\ d.fixable_errors = Len(d.parsed_errors) - Diagnostics({"compiler_error"})
            /\ d.fixable_errors >= Diagnostics({"unknown"})
            /\ NoDuplicates(d.error_types)
            /\ SeqRange(d.error_types) = present
            /\ NoDuplicates(d.general_suggestions)
            /\ SeqRange(d.general_suggestions) =
                   {GeneralSuggestionOf[kind] : kind \in present \cap DOMAIN GeneralSuggestionOf}

\* C23 witness: a compiler error and an unknown diagnostic: one critical, one
\* fixable, two kinds, no general suggestion.
C23_Witness ==
    /\ ErrorsDone
    /\ Diagnostics({"compiler_error"}) = 1 /\ Diagnostics({"unknown"}) = 1
    /\ result.data.severity_count.critical = 1
    /\ result.data.fixable_errors = 1
    /\ Len(result.data.error_types) = 2
    /\ result.data.general_suggestions = <<>>

(***************************************************************************)
(* Properties of validate_user_input                                       *)
(***************************************************************************)

ValidateDone == op = "validate_user_input" /\ pc = "done" /\ result.status = "success"

GenericSuggestion == "Please provide more specific details about your requirements"

\* C12: is_feasible is false exactly when missing_info has more than 3
\* entries or clarity_score is below 20, a negative score taken as it is, and
\* exactly then the generic suggestion is the last suggestion; the request
\* 'simple token' detects erc20, scores 10 and is not feasible.
C12_FeasibleIffClear ==
    ValidateDone =>
        LET d == result.data
            sug == d.suggestions
        IN  /\ d.is_feasible = ~(Len(d.missing_info) > 3 \/ d.clarity_score < 20)
            /\ ~d.is_feasible <=> (sug # <<>> /\ sug[Len(sug)] = GenericSuggestion)
            /\ \A k \in 1..(Len(sug) - 1) : sug[k] # GenericSuggestion
            /\ user_description.value = "simple token" =>
                   /\ d.recommended_contract_type = "erc20"
                   /\ d.detected_contract_types = <<"erc20">>
                   /\ d.clarity_score = 10
                   /\ ~d.is_feasible

\* C12 witness: the request 'simple token' returned with erc20, a score of 10,
\* not feasible and the generic suggestion last.
C12_Witness ==
    /\ ValidateDone /\ user_description.value = "simple token"
    /\ result.data.recommended_contract_type = "erc20"
    /\ result.data.clarity_score = 10
    /\ ~result.data.is_feasible
    /\ result.data.suggestions[Len(result.data.suggestions)] = GenericSuggestion

\* the keyword sets written out
TypeKeywordSets ==
    {{"token", "erc20", "fungible", "currency", "coin"},
     {"nft", "erc721", "non-fungible", "collectible", "unique"},
     {"erc1155", "multi-token", "batch", "gaming"},
     {"dao", "governance", "voting", "proposal", "community"},
     {"dex", "exchange", "swap", "liquidity", "trading"},
     {"staking", "stake", "reward", "yield", "farming"},
     {"marketplace", "auction", "buy", "sell", "listing"},
     {"multisig", "multi-signature", "multiple owners", "threshold"}}

RequirementGroups ==
    {{"name", "called", "title"}, {"symbol", "ticker", "abbreviation"},
     {"supply", "amount", "quantity", "total"},
     {"feature", "function", "capability", "ability"},
     {"owner", "admin", "permission", "access", "control"},
     {"secure", "safe", "protection", "guard"}}

\* C20: clarity_score is 30 if at least one contract-type keyword set matches
\* (else 0), plus 10 for each of the six requirement groups matched, plus the
\* length term (-20 below 5 words, +10 for 5 to 100 words, +20 above 100
\* words), never clamped.
C20_ClarityFormula ==
    ValidateDone =>
        LET text == Lower(user_description.value)
            words == result.data.word_count
            typeTerm == IF \E g \in TypeKeywordSets : \E kw \in g : Contains(text, kw)
                        THEN 30 ELSE 0
            groups == Cardinality({g \in RequirementGroups :
                                      \E kw \in g : Contains(text, kw)})
            lengthTerm == CASE words < 5 -> -20
                            [] words >= 5 /\ words <= 100 -> 10
                            [] words > 100 -> 20
        IN  /\ result.data.clarity_score = typeTerm + 10 * groups + lengthTerm
            /\ Len(result.data.found_requirements) = groups

\* C20 witness: a request of more than 100 words that matches a type and all
\* six groups and scores 110.
C20_Witness ==
    /\ ValidateDone /\ result.data.word_count > 100
    /\ Len(result.data.found_requirements) = 6
    /\ result.data.clarity_score = 110

\* the six questions in the order of the conditions
QuestionTexts ==
    <<"What type of smart contract do you want to create? (e.g., ERC-20 token, NFT, DAO)",
      "What would you like to name your contract/token?",
      "What symbol should your token have? (e.g., BTC, ETH)",
      "What should be the total supply of your token?",
      "Do you need access control? (e.g., only owner can mint, admin roles)",
      "What security features do you need? (e.g., pausable, reentrancy protection)">>

\* a keyword of the group is in the text
Mentions(text, group) == \E kw \in group : Contains(text, kw)

\* the conditions that are unmet for a description, by their place in the order
UnmetConditions(text, complexity) ==
    LET typed == \E g \in TypeKeywordSets : Mentions(text, g)
        erc20 == Mentions(text, {"token", "erc20", "fungible", "currency", "coin"})
    IN  {k \in 1..6 :
            CASE k = 1 -> ~typed
              [] k = 2 -> typed /\ ~Mentions(text, {"name", "called", "title"})
              [] k = 3 -> erc20 /\ ~Mentions(text, {"symbol", "ticker", "abbreviation"})
              [] k = 4 -> erc20 /\ ~Mentions(text, {"supply", "amount", "quantity", "total"})
              [] k = 5 -> ~Mentions(text, {"owner", "admin", "permission", "access",
                                           "control"})
              [] k = 6 -> /\ ~Mentions(text, {"secure", "safe", "protection", "guard"})
                          /\ complexity # "simple"}

\* C21: clarifying_questions holds exactly one question per unmet condition,
\* in the order: type missing, name missing with a type detected, symbol
\* missing for erc20, supply missing for erc20, access control unmentioned,
\* security unmentioned with a complexity that is not simple; no question of
\* a met condition appears.
C21_QuestionsInOrder ==
    ValidateDone =>
        LET questions == result.data.clarifying_questions
            unmet == UnmetConditions(Lower(user_description.value),
                                     result.data.estimated_complexity)
        IN  /\ Len(questions) = Cardinality(unmet)
            /\ \A k \in unmet :
                   questions[Cardinality({m \in unmet : m <= k})] = QuestionTexts[k]
            /\ result.data.needs_clarification = (unmet # {})

\* C21 witness: an erc20 request of moderate complexity that mentions nothing
\* else gets the five questions from the name on, in order.
C21_Witness ==
    /\ ValidateDone
    /\ result.data.recommended_contract_type = "erc20"
    /\ result.data.estimated_complexity # "simple"
    /\ result.data.clarifying_questions = SubSeq(QuestionTexts, 2, 6)

\* C25: missing_info never holds more than one entry and only 'contract_type'
\* is ever recorded, so is_feasible is false if and only if clarity_score is
\* below 20, and every request of at least 5 words with a detected contract
\* type is feasible.
C25_FeasibleByScoreAlone ==
    ValidateDone =>
        LET d == result.data
        IN  /\ d.missing_info \in {<<>>, <<"contract_type">>}
            /\ (d.missing_info = <<>>) = (d.detected_contract_types # <<>>)
            /\ d.is_feasible = (d.clarity_score >= 20)
            /\ (d.word_count >= 5 /\ d.detected_contract_types # <<>>) => d.is_feasible

\* C25 witness: a request with no detected type that is feasible all the same:
\* one missing entry, a score of at least 20.
C25_Witness ==
    /\ ValidateDone
    /\ result.data.missing_info = <<"contract_type">>
    /\ result.data.clarity_score >= 20
    /\ result.data.is_feasible

(***************************************************************************)
(* Properties of suggest_improvements                                      *)
(***************************************************************************)

SuggestDone == op = "suggest_improvements" /\ pc = "done" /\ result.status = "success"

Labels == {"critical", "high", "medium", "low"}

\* the findings of the four categories, combined
AllFindings ==
    result.data.gas_optimizations \o result.data.security_improvements
    \o result.data.code_quality \o result.data.advanced_patterns

\* the labels a finding carries in its severity, priority and impact fields
LabelsOf(finding) ==
    {finding[f] : f \in DOMAIN finding \cap {"severity", "priority", "impact"}}

\* the weight of a finding: that of its label, 50 without a recognised label
WeightOf(finding) ==
    IF "critical" \in LabelsOf(finding) THEN 100
    ELSE IF "high" \in LabelsOf(finding) THEN 80
    ELSE IF "medium" \in LabelsOf(finding) THEN 60
    ELSE IF "low" \in LabelsOf(finding) THEN 40
    ELSE 50

\* C17: improvement_score is max(0, 100 - average of the weights of all
\* findings), the weights critical 100, high 80, medium 60, low 40 and 50 for
\* a finding without recognised label; 100 when there is no finding.  (The
\* average is taken up to rounding: the score may be the floor or the ceiling.)
C17_ScoreByWeights ==
    SuggestDone =>
        LET n == Len(AllFindings)
            total == SeqSum([k \in 1..n |-> WeightOf(AllFindings[k])])
            score == result.data.summary.improvement_score
        IN  IF n = 0 THEN score = 100
            ELSE /\ score >= 0
                 /\ (100 - score) * n - total < n
                 /\ total - (100 - score) * n < n

\* C18: priority_breakdown counts, for each label, the findings of the
\* combined set whose severity, priority or impact is that label, and the four
\* counts sum to total_suggestions.
C18_BreakdownTallies ==
    SuggestDone =>
        LET pb == result.data.summary.priority_breakdown
        IN  /\ \A label \in Labels :
                   pb[label] = Cardinality({k \in 1..Len(AllFindings) :
                                               label \in LabelsOf(AllFindings[k])})
            /\ pb.critical + pb.high + pb.medium + pb.low
                   = result.data.summary.total_suggestions

\* C19: every returned finding carries a severity, priority or impact field
\* whose value is critical, high, medium or low.
C19_EveryFindingLabelled ==
    SuggestDone =>
        \A k \in 1..Len(AllFindings) : LabelsOf(AllFindings[k]) \cap Labels # {}

(***************************************************************************)
(* Properties of the result envelope                                       *)
(***************************************************************************)

\* the lines that hold 'function '
FunctionLines == {k \in 1..Len(lines) : Contains(lines[k], "function ")}

\* the function lines that another function line follows after more than 50
\* lines
ClosedLongFunctions ==
    {k \in FunctionLines :
        \E m \in FunctionLines :
            /\ m - k - 1 > 50
            /\ \A n \in FunctionLines : ~(k < n /\ n < m)}

\* the function_length findings of the returned code_quality list
LengthFindings ==
    {k \in 1..Len(result.data.code_quality) :
        result.data.code_quality[k].category = "function_length"}

\* C29: a function followed by more than 50 lines is reported by the
\* long-function rule if and only if another 'function ' line follows it: the
\* last function of the document is never reported, however long it is.
C29_LongOnlyWhenClosed ==
    SuggestDone =>
        /\ (LengthFindings # {}) = (ClosedLongFunctions # {})
        /\ Cardinality(LengthFindings) <= 1
        /\ \A n \in LengthFindings : \A k \in FunctionLines :
               LET text == result.data.code_quality[n].suggestion
               IN  /\ result.data.code_quality[n].priority = "medium"
                   /\ (k \in ClosedLongFunctions /\ Cardinality(ClosedLongFunctions) <= 3)
                          => Contains(text, StripSpace(lines[k]))
                   /\ k \notin ClosedLongFunctions => ~Contains(text, StripSpace(lines[k]))

\* C29 witness: a function of 51 lines that no function follows: it is the
\* last function of the document and no function_length finding is returned.
C29_Witness ==
    /\ SuggestDone /\ Len(lines) = 52
    /\ FunctionLines = {1} /\ ClosedLongFunctions = {}
    /\ LengthFindings = {}
    /\ result.data.summary.code_quality_issues = 1

\* C13: every operation returns {status: success, data} or {status: error,
\* error_message}, whatever the input: no exception reaches the caller, and an
\* error result carries no data.
C13_UniformEnvelope ==
    pc = "done" =>
        \/ result.status = "success" /\ DOMAIN result = {"status", "data"}
        \/ result.status = "error" /\ DOMAIN result = {"status", "error_message"}

\* C14: a malformed ABI entry is skipped on its own: the call returns success
\* with an estimate for every well-formed function entry; and with an empty
\* contract_code no body-derived increment is added.
C14_MalformedEntrySkipped ==
    (op = "analyze_gas_usage" /\ pc = "done") =>
        /\ result.status = "success"
        /\ \A k \in 1..Len(abi) :
               IsFunctionEntry(abi[k]) =>
                   \E n \in 1..Len(result.data.function_gas_estimates) :
                       result.data.function_gas_estimates[n].name = abi[k].name
        /\ ~HasSource(lines) =>
               \A n \in 1..Len(result.data.function_gas_estimates) :
                   LET e == result.data.function_gas_estimates[n]
                   IN  e.estimated_gas \in {500, 50000, 21000, 45000, 25000}

\* C15: a modifier, constructor or function whose braces never balance after
\* an opening brace is left open through the end of the document: the call
\* succeeds and the section's line_end is the last line.
C15_UnbalancedRunsToEnd ==
    (op = "explain_generated_code" /\ pc = "done") =>
        /\ result.status = "success"
        /\ LET secs == result.data.explanations
               delta == BraceDelta(lines)
               open == HasOpen(lines)
           IN  \A k \in 1..Len(secs) :
                   LET e == secs[k]
                       s == e.line_start
                   IN  (/\ IsBlockSection(e)
                        /\ \E c \in s..Len(lines) : open[c]
                        /\ \A c \in s..Len(lines) : ~ClosesAt(delta, open, s, c))
                           => (HasEnd(e) /\ e.line_end = Len(lines))

\* C24: the sections returned by explain_generated_code are in line order:
\* line_start is strictly increasing from one section to the next, for every
\* source.
C24_SectionsInLineOrder ==
    ExplainDone =>
        LET secs == result.data.explanations
        IN  \A k \in 1..(Len(secs) - 1) : secs[k].line_start < secs[k + 1].line_start

\* C24 witness: three returned sections, the second a block that spans the
\* line of the third, with increasing line_start.
C24_Witness ==
    /\ ExplainDone /\ Len(result.data.explanations) = 3
    /\ LET secs == result.data.explanations
       IN  /\ IsBlockSection(secs[2]) /\ HasEnd(secs[2])
           /\ secs[2].line_end >= secs[3].line_start
           /\ secs[1].line_start < secs[2].line_start
           /\ secs[2].line_start < secs[3].line_start

\* the title of the sections that current_section stands for
TitleOfOpen ==
    CASE current_section = "imports" -> "Import Statements"
      [] current_section = "contract_declaration" -> "Contract Declaration"
      [] current_section = "constants" -> "Constants & Immutable Variables"
      [] current_section = "state_variables" -> "State Variables"
      [] current_section = "events" -> "Events"
      [] OTHER -> "None"

\* the place of the open section in the list: the latest section of the open kind
OpenSection ==
    LET places == {k \in 1..Len(explanations) : explanations[k].section = TitleOfOpen}
    IN  IF places = {} THEN 0 ELSE CHOOSE k \in places : \A m \in places : m <= k

\* a scan step that opens a section while another one is open closes that one
\* at the line before the new section
ClosesOpenSection ==
    (/\ op = "explain_generated_code" /\ pc = "scan"
     /\ Len(explanations') = Len(explanations) + 1
     /\ OpenSection > 0)
        => LET closed == explanations'[OpenSection]
               opened == explanations'[Len(explanations')]
           IN  HasEnd(closed) /\ closed.line_end = opened.line_start - 1

\* C22: during the scan, every keyword line that opens a section while another
\* section is open closes the open section with line_end equal to the line
\* before the new section's line_start, for every order of keyword lines, a
\* pragma line after an open import, state-variable or event section included.
C22_NewSectionClosesOpen == [][ClosesOpenSection]_vars

(***************************************************************************)
(* Properties of generate_contract_documentation                           *)
(***************************************************************************)

DocDone == op = "generate_contract_documentation" /\ pc = "done"

\* w stands in s as a word: no letter, digit or underscore next to it
HasWord(s, w) ==
    \E k \in 1..(Len(s) - Len(w) + 1) :
        /\ OccursAt(s, w, k)
        /\ k = 1 \/ Char(s, k - 1) \notin WordChars
        /\ k + Len(w) > Len(s) \/ Char(s, k + Len(w)) \notin WordChars

\* the line starts, after its leading blanks, with 'event ' or 'modifier '
IsEventOrModifier(line) ==
    StartsWith(Strip(line), "event ") \/ StartsWith(Strip(line), "modifier ")

\* the result is the error envelope: status error, a message, no data
IsErrorEnvelope == result.status = "error" /\ DOMAIN result = {"status", "error_message"}

\* the result is a success with empty function, event and modifier inventories
IsEmptySuccess ==
    /\ result.status = "success"
    /\ result.data.contract_structure.functions = <<>>
    /\ result.data.contract_structure.events = <<>>
    /\ result.data.contract_structure.modifiers = <<>>

\* C30 as stated: the error envelope is returned exactly for the sources with
\* a line that starts with 'function ' and has neither the word internal nor
\* the word private, or that starts with 'event ' or 'modifier '; every other
\* source gets a success with empty inventories.
C30_ErrorByWord ==
    DocDone =>
        LET failing == \E k \in 1..Len(lines) :
                           \/ /\ StartsWith(Strip(lines[k]), "function ")
                              /\ ~HasWord(lines[k], "internal")
                              /\ ~HasWord(lines[k], "private")
                           \/ IsEventOrModifier(lines[k])
        IN  IF failing THEN IsErrorEnvelope ELSE IsEmptySuccess

\* C30: the error envelope is returned exactly for the sources with a line
\* that starts with 'function ' and holds neither the substring 'internal' nor
\* the substring 'private' (inside a longer name as well), or that starts
\* with 'event ' or 'modifier ', because the regular-expression library is
\* never imported; every other source gets a success with empty inventories.
C30_ErrorBySubstring ==
    DocDone =>
        LET failing == \E k \in 1..Len(lines) :
                           \/ /\ StartsWith(Strip(lines[k]), "function ")
                              /\ \A n \in 1..Len(lines[k]) :
                                     /\ ~OccursAt(lines[k], "internal", n)
                                     /\ ~OccursAt(lines[k], "private", n)
                           \/ IsEventOrModifier(lines[k])
        IN  IF failing THEN IsErrorEnvelope /\ Contains(result.error_message, "'re'")
            ELSE IsEmptySuccess

\* C30 witness: an internal function on the first line is passed over and the
\* public function on the second line ends the call with the error envelope.
C30_Witness ==
    /\ DocDone /\ IsErrorEnvelope /\ i = 1
    /\ lines = <<"  function _burn() internal {", "  function mint(address to) public {">>

(***************************************************************************)
(* Properties of concurrent calls                                          *)
(***************************************************************************)

\* a call that has returned gave a result it can give when it runs alone
Settled(call) == call.pc = "done" => call.result \in AloneResults(call)

\* C16: two calls of the analysis operations never interact: under every
\* interleaving of their steps the result of each call is a result of that
\* call run alone.
C16_NoInterference == Settled(Context) /\ (other # Idle => Settled(other))

\* C16 witness: both calls have returned, each was suspended between two of
\* its steps, one is an explain_generated_code and the other a
\* handle_compilation_errors, and each result is that of the call run alone.
C16_Witness ==
    /\ other # Idle /\ pc = "done" /\ other.pc = "done"
    /\ preempted /\ other.preempted
    /\ op = "explain_generated_code" /\ other.op = "handle_compilation_errors"
    /\ result \in AloneResults(Context) /\ other.result \in AloneResults(other)
    /\ Len(result.data.explanations) = 3

====
